---------------------------- MODULE Spec2Model ----------------------------
(***************************************************************************)
(* Priority-matrix plugin: the markdown document as a data store, the      *)
(* State Manager that owns the in-memory Matrix, and the view that feeds   *)
(* it file text and change notifications.                                  *)
(*                                                                         *)
(* A text is the array of lines that matrixToMd joins with "\n"; a line is *)
(* a record [k, t, v, c]: its kind, its text, a value and a checkbox.      *)
(***************************************************************************)
EXTENDS Integers, Sequences, FiniteSets, TLC

(***************************************************************************)
(* Bounds of the model.                                                    *)
(***************************************************************************)
MaxEvents == 2

\* calls made on a State Manager driven on its own
MaxCalls == 3

\* operations applied to a loaded Matrix
MaxOps == 2

(***************************************************************************)
(* Sections, items, settings.                                              *)
(***************************************************************************)
Sections == {"todo", "q1", "q2", "q3", "q4", "done"}
QuadrantIds == <<"q1", "q2", "q3", "q4">>
NoIndex == -1

DEFAULT_SETTINGS == "defaults"
CustomSettings == "custom"
MarkerKey == "do-not-delete"
MarkerValue == "priority-matrix-plugin"

Line(k, t, v, c) == [k |-> k, t |-> t, v |-> v, c |-> c]
FmDelim == Line("fmd", "---", "", FALSE)
Blank == Line("blank", "", "", FALSE)
Heading(t) == Line("h2", t, "", FALSE)
Task(t, c) == Line("task", t, "", c)
Bullet(t) == Line("bullet", t, "", FALSE)
FenceJson == Line("fence", "json", "", FALSE)
FenceEnd == Line("fence", "", "", FALSE)
JsonLine(s) == Line("json", s, "", FALSE)
KeyValue(key, v) == Line("kv", key, v, FALSE)
Para(t) == Line("para", t, "", FALSE)

MkItem(id, titleRaw, checked) == [id |-> id, titleRaw |-> titleRaw, checked |-> checked]

(***************************************************************************)
(* Text of an item line: the wiki-style references the model knows, as the *)
(* wikilink pattern of listItemToUnhydratedItem finds them.                *)
(***************************************************************************)
WikiPath(t) ==
    CASE t = "[[n]]" -> "n"
      [] t = "[[m]]" -> "m"
      [] t = "see [[n]]" -> "n"
      [] OTHER -> ""

WikiText(path) ==
    CASE path = "n" -> "[[n]]"
      [] path = "m" -> "[[m]]"
      [] OTHER -> path

(***************************************************************************)
(* JSON.stringify and JSON.parse of a front-matter value.                  *)
(***************************************************************************)
JsonStringify(v) ==
    CASE v = "x" -> "\"x\""
      [] v = "hello" -> "\"hello\""
      [] v = "priority-matrix-plugin" -> "\"priority-matrix-plugin\""
      [] OTHER -> v

JsonParseOrRaw(s) ==
    CASE s = "\"x\"" -> "x"
      [] s = "\"hello\"" -> "hello"
      [] s = "\"priority-matrix-plugin\"" -> "priority-matrix-plugin"
      [] OTHER -> s

\* /^(\w+):/ : a key of word characters only
IsWordKey(key) == key \in {"title", "owner"}

(***************************************************************************)
(* Sequence helpers.                                                       *)
(***************************************************************************)
Min(S) == CHOOSE x \in S : \A y \in S : x <= y

RemoveAt(s, i) == SubSeq(s, 1, i - 1) \o SubSeq(s, i + 1, Len(s))

\* Array.prototype.splice(index, 0, item): an index past the end appends
InsertAt(s, i, x) ==
    LET k == IF i > Len(s) THEN Len(s) ELSE i
    IN SubSeq(s, 1, k) \o <<x>> \o SubSeq(s, k + 1, Len(s))

\* Array.prototype.findIndex, 0 for "not found" (indices are 1-based here)
FindIndex(s, id) ==
    LET hits == {i \in 1..Len(s) : s[i].id = id}
    IN IF hits = {} THEN 0 ELSE Min(hits)

RECURSIVE Flatten(_)
Flatten(ss) == IF ss = <<>> THEN <<>> ELSE Head(ss) \o Flatten(Tail(ss))

(***************************************************************************)
(* The Matrix: six ordered item lists, the settings, the front matter.     *)
(***************************************************************************)
MkMatrix(lists, settings, frontmatter) ==
    [lists |-> lists, settings |-> settings, frontmatter |-> frontmatter]

EmptyLists == [s \in Sections |-> <<>>]

\* "state: Matrix | null = null": the value that stands for null
NoState == MkMatrix(EmptyLists, "null", <<>>)

(***************************************************************************)
(* matrixToMd: the serializer.                                             *)
(***************************************************************************)
\* the front matter written as the Matrix holds it
FrontmatterAsHeld(fm) == fm

FrontmatterWithMarker(fm) ==
    IF \E i \in 1..Len(fm) : fm[i].key = MarkerKey
    THEN [i \in 1..Len(fm) |->
            IF fm[i].key = MarkerKey THEN [key |-> MarkerKey, val |-> MarkerValue] ELSE fm[i]]
    ELSE Append(fm, [key |-> MarkerKey, val |-> MarkerValue])

SectionBlock(title, itemLines) ==
    <<Heading(title), Blank>> \o itemLines
        \o (IF itemLines = <<>> THEN <<Blank>> ELSE <<>>) \o <<Blank>>

UpperId(q) ==
    CASE q = "q1" -> "Q1" [] q = "q2" -> "Q2" [] q = "q3" -> "Q3" [] q = "q4" -> "Q4"

matrixToMd(matrix) ==
    LET fm == FrontmatterWithMarker(matrix.frontmatter)
        L == matrix.lists
    IN <<FmDelim>>
       \o [i \in 1..Len(fm) |-> KeyValue(fm[i].key, JsonStringify(fm[i].val))]
       \o <<FmDelim, Blank>>
       \o SectionBlock("TODO", [i \in 1..Len(L["todo"]) |-> Task(L["todo"][i].titleRaw, FALSE)])
       \o Flatten([k \in 1..4 |->
            SectionBlock(UpperId(QuadrantIds[k]),
                [i \in 1..Len(L[QuadrantIds[k]]) |-> Bullet(L[QuadrantIds[k]][i].titleRaw)])])
       \o SectionBlock("DONE", [i \in 1..Len(L["done"]) |-> Task(L["done"][i].titleRaw, TRUE)])
       \o <<Heading("settingsJson"), Blank, FenceJson, JsonLine(matrix.settings), FenceEnd, Blank>>

(***************************************************************************)
(* String.prototype.trim on a whole text: the blank lines at both ends go. *)
(***************************************************************************)
RECURSIVE TrimStart(_)
TrimStart(md) ==
    IF md # <<>> /\ Head(md).k = "blank" THEN TrimStart(Tail(md)) ELSE md

RECURSIVE TrimEnd(_)
TrimEnd(md) ==
    IF md # <<>> /\ md[Len(md)].k = "blank" THEN TrimEnd(SubSeq(md, 1, Len(md) - 1)) ELSE md

Trim(md) == TrimEnd(TrimStart(md))

(***************************************************************************)
(* parseMarkdown: front matter, the settings block, the remaining content. *)
(***************************************************************************)
\* /^---\n([\s\S]*?)\n---\n/ : index of the closing delimiter, 0 for no match
FrontmatterEnd(md) ==
    LET closers == {j \in 3..(Len(md) - 1) : md[j].k = "fmd"}
    IN IF Len(md) >= 1 /\ md[1].k = "fmd" /\ closers # {} THEN Min(closers) ELSE 0

ParseFrontmatter(md) ==
    LET j == FrontmatterEnd(md)
        body == IF j = 0 THEN <<>> ELSE SubSeq(md, 2, j - 1)
        kvs == SelectSeq(body, LAMBDA l : l.k = "kv" /\ IsWordKey(l.t))
    IN [i \in 1..Len(kvs) |-> [key |-> kvs[i].t, val |-> JsonParseOrRaw(kvs[i].v)]]

ContentWithoutFrontmatter(md) == SubSeq(md, FrontmatterEnd(md) + 1, Len(md))

\* the match of the settings pattern in the content: <<heading, fence, close>>
\* indices, <<0, 0, 0>> for no match
SettingsMatch(c) ==
    LET hs == {i \in 1..Len(c) : c[i].k = "h2" /\ c[i].t = "settingsJson"}
        i0 == IF hs = {} THEN 0 ELSE Min(hs)
        fs == {f \in 1..Len(c) : i0 > 0 /\ f > i0 /\ c[f] = FenceJson}
        f0 == IF fs = {} THEN 0 ELSE Min(fs)
        es == {e \in 1..Len(c) : f0 > 0 /\ e > f0 /\ c[e].k = "fence"}
        e0 == IF es = {} THEN 0 ELSE Min(es)
    IN IF e0 > 0 THEN <<i0, f0, e0>> ELSE <<0, 0, 0>>

ValidSettingsJson == {DEFAULT_SETTINGS, CustomSettings}

parseSettingsFromJson(jsonStr) ==
    IF jsonStr \in ValidSettingsJson THEN jsonStr ELSE DEFAULT_SETTINGS

ParseSettings(c) ==
    LET m == SettingsMatch(c)
        captured == IF m[3] = 0 THEN <<>> ELSE Trim(SubSeq(c, m[2] + 1, m[3] - 1))
    IN IF captured = <<>> THEN DEFAULT_SETTINGS
       ELSE IF Len(captured) = 1 /\ captured[1].k = "json"
            THEN parseSettingsFromJson(captured[1].t)
            ELSE DEFAULT_SETTINGS

ContentForAst(c) ==
    LET m == SettingsMatch(c)
    IN IF m[3] = 0 THEN c ELSE SubSeq(c, 1, m[1] - 1) \o SubSeq(c, m[3] + 1, Len(c))

(***************************************************************************)
(* astToUnhydratedMatrix and hydrateMatrix.                                *)
(***************************************************************************)
\* heading text, lower-cased and trimmed, against the six literals
HeadingSection(t) ==
    CASE t \in {"TODO", "todo"} -> "todo"
      [] t \in {"Q1", "q1"} -> "q1"
      [] t \in {"Q2", "q2"} -> "q2"
      [] t \in {"Q3", "q3"} -> "q3"
      [] t \in {"Q4", "q4"} -> "q4"
      [] t \in {"DONE", "done"} -> "done"
      [] OTHER -> "none"

IsListItem(l) == l.k \in {"task", "bullet"}

listItemToUnhydratedItem(l) ==
    LET path == WikiPath(l.t)
    IN MkItem(IF path # "" THEN path ELSE l.t,
              IF path # "" THEN WikiText(path) ELSE l.t,
              l.k = "task" /\ l.c)

\* every item filed under the heading it stands under
BankAsHeaded(section, item) == section

BankOf(section, item) ==
    IF section = "todo" THEN (IF item.checked THEN "done" ELSE "todo") ELSE section

RECURSIVE Extract(_, _, _)
\* every heading starts anew: one that names no section leaves none current
SectionAfterHeadingResets(currentSection, t) == HeadingSection(t)

\* the second pass at a heading: only a section name changes currentSection
SectionAfterHeading(currentSection, t) ==
    IF HeadingSection(t) # "none" THEN HeadingSection(t) ELSE currentSection

Extract(c, currentSection, lists) ==
    IF c = <<>> THEN lists
    ELSE LET l == Head(c)
         IN IF l.k = "h2"
            THEN Extract(Tail(c), SectionAfterHeading(currentSection, l.t), lists)
            ELSE IF IsListItem(l) /\ currentSection # "none" /\ l.t # ""
            THEN LET item == listItemToUnhydratedItem(l)
                     bank == BankOf(currentSection, item)
                 IN Extract(Tail(c), currentSection,
                            [lists EXCEPT ![bank] = Append(@, item)])
            ELSE Extract(Tail(c), currentSection, lists)

astToUnhydratedMatrix(c) == Extract(ContentForAst(c), "none", EmptyLists)

mdToMatrix(md) ==
    LET c == ContentWithoutFrontmatter(md)
    IN MkMatrix(astToUnhydratedMatrix(c), ParseSettings(c), ParseFrontmatter(md))

(***************************************************************************)
(* PriorityMatrixView.isPriorityMatrixFile                                 *)
(***************************************************************************)
UpperSectionNames == {"TODO", "Q1", "Q2", "Q3", "Q4", "DONE"}

isPriorityMatrixFile(data) ==
    \/ /\ \E i \in 1..Len(data) : data[i].k = "kv" /\ data[i].t = MarkerKey
       /\ \E i \in 1..Len(data) : data[i].v = JsonStringify(MarkerValue)
    \/ \E i \in 1..Len(data) : data[i].k = "h2" /\ data[i].t \in UpperSectionNames

(***************************************************************************)
(* StateManager.moveItem and StateManager.reorderItem on a Matrix.  Each   *)
(* yields the Matrix after the call and whether notifyListeners ran.       *)
(* Indices are the code's 0-based indices; NoIndex is an omitted one.      *)
(***************************************************************************)
\* an operation that changes the Matrix and never calls notifyListeners()
OutcomeSilent(m, notified) == [m |-> m, notified |-> FALSE, seen |-> <<>>]

\* seen: what a listener observes, one Matrix per notifyListeners() call; the
\* call is the last statement of every method that makes one
Outcome(m, notified) ==
    [m |-> m, notified |-> notified, seen |-> IF notified THEN <<m>> ELSE <<>>]

\* a reorder that inserts at the index as given, against the shortened list
reorderItemUnadjusted(m, itemId, section, insertIndex) ==
    LET items == m.lists[section]
        idx == FindIndex(items, itemId)
        rest == RemoveAt(items, idx)
    IN IF m = NoState \/ insertIndex < 0 \/ idx = 0 THEN Outcome(m, FALSE)
       ELSE Outcome([m EXCEPT !.lists[section] = InsertAt(rest, insertIndex, items[idx])],
                    TRUE)

\* a reorder that drops the item when the index is at or past the end of the list
reorderItemDropsPastEnd(m, itemId, section, insertIndex) ==
    LET items == m.lists[section]
        idx == FindIndex(items, itemId)
        rest == RemoveAt(items, idx)
        adjusted == IF insertIndex > idx - 1 THEN insertIndex - 1 ELSE insertIndex
    IN IF m = NoState \/ insertIndex < 0 \/ idx = 0 THEN Outcome(m, FALSE)
       ELSE IF insertIndex >= Len(items)
       THEN Outcome([m EXCEPT !.lists[section] = rest], TRUE)
       ELSE Outcome([m EXCEPT !.lists[section] = InsertAt(rest, adjusted, items[idx])],
                    TRUE)

reorderItem(m, itemId, section, insertIndex) ==
    LET items == m.lists[section]
        idx == FindIndex(items, itemId)
        currentIndex == idx - 1
        rest == RemoveAt(items, idx)
        adjusted == IF insertIndex > currentIndex THEN insertIndex - 1 ELSE insertIndex
        clamped == IF adjusted < 0 THEN 0
                   ELSE IF adjusted > Len(rest) THEN Len(rest) ELSE adjusted
    IN IF m = NoState \/ insertIndex < 0 \/ idx = 0 THEN Outcome(m, FALSE)
       ELSE Outcome([m EXCEPT !.lists[section] = InsertAt(rest, clamped, items[idx])], TRUE)

\* a move that copies: the item stays in the section it came from
moveItemKeepsSource(m, itemId, from, to, insertIndex) ==
    LET items == m.lists[from]
        idx == FindIndex(items, itemId)
        item == items[idx]
        moved == IF to = "done" THEN [item EXCEPT !.checked = TRUE]
                 ELSE IF to = "todo" THEN [item EXCEPT !.checked = FALSE]
                 ELSE item
        dest == m.lists[to]
    IN IF m = NoState THEN Outcome(m, FALSE)
       ELSE IF from = to
       THEN (IF insertIndex >= 0 THEN reorderItem(m, itemId, from, insertIndex)
             ELSE Outcome(m, FALSE))
       ELSE IF idx = 0 THEN Outcome(m, FALSE)
       ELSE Outcome([m EXCEPT !.lists[to] =
                        IF insertIndex >= 0 THEN InsertAt(dest, insertIndex, moved)
                        ELSE Append(dest, moved)],
                    TRUE)

\* a move that never touches the checked flag of the item
moveItemKeepsChecked(m, itemId, from, to, insertIndex) ==
    LET items == m.lists[from]
        idx == FindIndex(items, itemId)
        removed == [m.lists EXCEPT ![from] = RemoveAt(items, idx)]
        dest == removed[to]
    IN IF m = NoState THEN Outcome(m, FALSE)
       ELSE IF from = to
       THEN (IF insertIndex >= 0 THEN reorderItem(m, itemId, from, insertIndex)
             ELSE Outcome(m, FALSE))
       ELSE IF idx = 0 THEN Outcome(m, FALSE)
       ELSE Outcome([m EXCEPT !.lists =
                        [removed EXCEPT ![to] =
                            IF insertIndex >= 0 THEN InsertAt(dest, insertIndex, items[idx])
                            ELSE Append(dest, items[idx])]],
                    TRUE)

\* a move within one section done as a removal and an insertion
moveItemAlwaysSplices(m, itemId, from, to, insertIndex) ==
    LET items == m.lists[from]
        idx == FindIndex(items, itemId)
        item == items[idx]
        moved == IF to = "done" THEN [item EXCEPT !.checked = TRUE]
                 ELSE IF to = "todo" THEN [item EXCEPT !.checked = FALSE]
                 ELSE item
        removed == [m.lists EXCEPT ![from] = RemoveAt(items, idx)]
        dest == removed[to]
    IN IF m = NoState \/ idx = 0 THEN Outcome(m, FALSE)
       ELSE Outcome([m EXCEPT !.lists =
                        [removed EXCEPT ![to] =
                            IF insertIndex >= 0 THEN InsertAt(dest, insertIndex, moved)
                            ELSE Append(dest, moved)]],
                    TRUE)

\* a move that splices without looking at what findIndex returned: with
\* the id absent, the last item of the source section is moved
moveItemSplicesBlindly(m, itemId, from, to, insertIndex) ==
    LET items == m.lists[from]
        found == FindIndex(items, itemId)
        idx == IF found = 0 THEN Len(items) ELSE found
        item == items[idx]
        moved == IF to = "done" THEN [item EXCEPT !.checked = TRUE]
                 ELSE IF to = "todo" THEN [item EXCEPT !.checked = FALSE]
                 ELSE item
        removed == [m.lists EXCEPT ![from] = RemoveAt(items, idx)]
        dest == removed[to]
    IN IF m = NoState THEN Outcome(m, FALSE)
       ELSE IF from = to
       THEN (IF insertIndex >= 0 THEN reorderItem(m, itemId, from, insertIndex)
             ELSE Outcome(m, FALSE))
       ELSE IF idx = 0 THEN Outcome(m, FALSE)
       ELSE Outcome([m EXCEPT !.lists =
                        [removed EXCEPT ![to] =
                            IF insertIndex >= 0 THEN InsertAt(dest, insertIndex, moved)
                            ELSE Append(dest, moved)]],
                    TRUE)

moveItem(m, itemId, from, to, insertIndex) ==
    LET items == m.lists[from]
        idx == FindIndex(items, itemId)
        item == items[idx]
        moved == IF to = "done" THEN [item EXCEPT !.checked = TRUE]
                 ELSE IF to = "todo" THEN [item EXCEPT !.checked = FALSE]
                 ELSE item
        removed == [m.lists EXCEPT ![from] = RemoveAt(items, idx)]
        dest == removed[to]
    IN IF m = NoState THEN Outcome(m, FALSE)
       ELSE IF from = to
       THEN (IF insertIndex >= 0 THEN reorderItem(m, itemId, from, insertIndex)
             ELSE Outcome(m, FALSE))
       ELSE IF idx = 0 THEN Outcome(m, FALSE)
       ELSE Outcome([m EXCEPT !.lists =
                        [removed EXCEPT ![to] =
                            IF insertIndex >= 0 THEN InsertAt(dest, insertIndex, moved)
                            ELSE Append(dest, moved)]],
                    TRUE)

(***************************************************************************)
(* StateManager.addItem(text, section, insertIndex) at the time now of     *)
(* Date.now(): the id is item-<now>-<the first characters of the text,     *)
(* runs of white space replaced by a dash>.                                *)
(***************************************************************************)
\* text.trim()
TrimText(text) ==
    CASE text = "t " -> "t"
      [] OTHER -> text

\* text.slice(0, 20).replace(/\s+/g, '-')
Slug(text) ==
    CASE text = "t " -> "t-"
      [] text = "p q" -> "p-q"
      [] text = "see [[n]]" -> "see-[[n]]"
      [] OTHER -> text

ItemId(now, text) ==
    CASE now = 1 /\ Slug(text) = "t-" -> "item-1-t-"
      [] now = 1 /\ Slug(text) = "p-q" -> "item-1-p-q"
      [] now = 1 /\ Slug(text) = "see-[[n]]" -> "item-1-see-[[n]]"
      [] now = 2 /\ Slug(text) = "t-" -> "item-2-t-"
      [] now = 2 /\ Slug(text) = "p-q" -> "item-2-p-q"

\* the time in the id of an item that addItem made, 0 for any other id
TimeOfId(id) ==
    CASE id \in {"item-1-t-", "item-1-p-q", "item-1-see-[[n]]"} -> 1
      [] id \in {"item-2-t-", "item-2-p-q"} -> 2
      [] OTHER -> 0

AllItems(m) ==
    UNION {{m.lists[sec][i] : i \in 1..Len(m.lists[sec])} : sec \in Sections}

AllIds(m) == {it.id : it \in AllItems(m)}

addItem(m, now, text, section, insertIndex) ==
    LET item == MkItem(ItemId(now, text), TrimText(text), section = "done")
        items == m.lists[section]
    IN IF m = NoState THEN Outcome(m, FALSE)
       ELSE Outcome([m EXCEPT !.lists[section] =
                        IF insertIndex >= 0 THEN InsertAt(items, insertIndex, item)
                        ELSE Append(items, item)],
                    TRUE)

(***************************************************************************)
(* StateManager.removeItem(itemId, section): the item with that id leaves  *)
(* the list of the section; nothing happens when it is not there.          *)
(***************************************************************************)
\* a removal that empties the section
removeItemClearsSection(m, itemId, section) ==
    IF m = NoState \/ FindIndex(m.lists[section], itemId) = 0 THEN Outcome(m, FALSE)
    ELSE Outcome([m EXCEPT !.lists[section] = <<>>], TRUE)

removeItem(m, itemId, section) ==
    LET items == m.lists[section]
        idx == FindIndex(items, itemId)
    IN IF m = NoState \/ idx = 0 THEN Outcome(m, FALSE)
       ELSE Outcome([m EXCEPT !.lists[section] = RemoveAt(items, idx)], TRUE)

\* StateManager.setState(matrix)
setState(m, matrix) == Outcome(matrix, TRUE)

(***************************************************************************)
(* The document the view is opened on, and the texts another writer puts   *)
(* into the file.                                                          *)
(***************************************************************************)
ItemA == MkItem("a", "a", FALSE)

InitMatrix ==
    MkMatrix([EmptyLists EXCEPT !["todo"] = <<ItemA>>], DEFAULT_SETTINGS, <<>>)

EditedMatrix ==
    MkMatrix([EmptyLists EXCEPT !["q2"] = <<ItemA>>], DEFAULT_SETTINGS, <<>>)

InitText == matrixToMd(InitMatrix)

ExternalTexts ==
    { matrixToMd(EditedMatrix),           \* the item moved by hand
      <<Blank>> \o InitText,              \* the first document, padded
      <<Para("hello")>>,                  \* nothing of a matrix left
      <<Heading("todo"), Blank, Bullet("a")>> }   \* rewritten by hand, no marker

\* paths the vault scan of refreshTodos can find
ScanPaths == {"n"}

\* settings.exemptPaths
ExemptPaths(settings) == IF settings = CustomSettings THEN {"m"} ELSE {}

DropItems == {"a"}
DropSections == {"todo", "q1", "done"}
DropIndexes == {NoIndex, 0}

(***************************************************************************)
(* settings.ts: DEFAULT_SETTINGS as the object it is.  Of its fields the   *)
(* two behaviour flags and exemptPaths are kept.                           *)
(***************************************************************************)
DefaultSettingsObject ==
    [autoRemoveTodoOnDone |-> FALSE, enableStrikethroughOnDone |-> TRUE, exemptPaths |-> <<>>]

(***************************************************************************)
(* The state: the vault's file, the host's change notifications, the       *)
(* State Manager, its save() calls in flight, and the view.                *)
(***************************************************************************)
VARIABLES
    file,           \* the text of the backing file
    fileExists,     \* vault.getAbstractFileByPath(file.path) !== null
    notifs,         \* change notifications the host has not delivered yet
    hasSM,          \* PriorityMatrixView.stateManager !== null
    state,          \* StateManager.state
    isSaving,       \* StateManager.isSaving
    notified,       \* calls of StateManager.notifyListeners made by the last step
    saves,          \* save() calls between their start and their finally
    calls,          \* setViewData calls suspended at their await
    pendingReads,   \* vault.read calls of onload and onOpen not yet resolved
    isUnloading,    \* PriorityMatrixView.isUnloading
    life,           \* "open", "closed" (onClose ran), "unloaded" (onunload ran)
    renderTimeout,  \* PriorityMatrixView.renderTimeout !== null
    mounted,        \* the rendered component holds the current State Manager
    refresh,        \* the refreshTodos call in progress
    gestures,       \* user gestures (drops, refresh clicks, direct calls) so far
    externals,      \* writes of another writer so far
    writeFailures,  \* rejected vault.modify calls so far
    lastOp,         \* what the last step did
    defaults,       \* the module-level DEFAULT_SETTINGS object of settings.ts
    docs,           \* the open documents of the settings specification
    manager         \* the SettingsManager of an open settings modal

vars == <<file, fileExists, notifs, hasSM, state, isSaving, notified, saves,
          calls, pendingReads, isUnloading, life, renderTimeout,
          mounted, refresh, gestures, externals, writeFailures, lastOp,
          defaults, docs, manager>>

vaultVars == <<file, fileExists, notifs, externals, writeFailures>>
smVars == <<hasSM, state, isSaving, saves>>
viewVars == <<calls, pendingReads, isUnloading, life, renderTimeout, mounted, refresh,
              gestures>>

\* no document open in the settings specification and no settings modal
SettingsIdle == defaults = DefaultSettingsObject /\ docs = <<>> /\ manager = <<>>

(***************************************************************************)
(* A holder of a Matrix object (the currentState of a suspended            *)
(* setViewData, the matrix of a running refreshTodos) sees the gestures   *)
(* made in place while the object is the State Manager's; once the State   *)
(* Manager holds another object, the holder keeps the old one.  A holder   *)
(* that kept an old object is not re-attached when refreshTodos installs   *)
(* that object again.                                                      *)
(***************************************************************************)
Live == [live |-> TRUE, m |-> NoState]
Kept(m) == [live |-> FALSE, m |-> m]
Held(ref) == IF ref.live THEN state ELSE ref.m

DetachCalls(cs, old) ==
    [i \in 1..Len(cs) |-> IF cs[i].cur.live THEN [cs[i] EXCEPT !.cur = Kept(old)] ELSE cs[i]]

DetachRefresh(r, old) ==
    IF r.pc = "scan" /\ r.cur.live THEN [r EXCEPT !.cur = Kept(old)] ELSE r

Idle == [pc |-> "idle", cur |-> Live]

Disown(ss) == [i \in 1..Len(ss) |-> [ss[i] EXCEPT !.own = FALSE]]

OwnSaveInFlight == \E i \in 1..Len(saves) : saves[i].own

Writers == {i \in 1..Len(saves) : saves[i].pc = "write"}

(***************************************************************************)
(* Init: the view is constructed and opened on the document; onload and    *)
(* onOpen have each started to read the file.                              *)
(***************************************************************************)
Init ==
    /\ file = InitText
    /\ fileExists = TRUE
    /\ notifs = <<>>
    /\ hasSM = FALSE
    /\ state = NoState
    /\ isSaving = FALSE
    /\ notified = 0
    /\ saves = <<>>
    /\ calls = <<>>
    /\ pendingReads = {"onload", "onOpen"}
    /\ isUnloading = FALSE
    /\ life = "open"
    /\ renderTimeout = FALSE
    /\ mounted = FALSE
    /\ refresh = Idle
    /\ gestures = 0
    /\ externals = 0
    /\ writeFailures = 0
    /\ lastOp = "init"
    /\ SettingsIdle

(***************************************************************************)
(* StateManager.save(), up to its first await: nothing without a Matrix;   *)
(* else the flag is set, the Matrix serialized and vault.modify called.    *)
(***************************************************************************)
SaveStartedWithoutMatrix(m, ss, src) ==
    Append(ss, [md |-> matrixToMd(m), pc |-> "write", own |-> TRUE, src |-> src])

SaveStarted(m, ss, src) ==
    IF m = NoState THEN ss
    ELSE Append(ss, [md |-> matrixToMd(m), pc |-> "write", own |-> TRUE, src |-> src])

SavingAfterStart(m, flag) == IF m = NoState THEN flag ELSE TRUE

(***************************************************************************)
(* PriorityMatrixView.setViewData(data, clear), up to its first await.     *)
(* The await of getParsedMatrix is an await of a settled promise: its      *)
(* continuation (schedule the render) runs before any timer, I/O or user   *)
(* event, and is part of the step that parsed.                             *)
(***************************************************************************)
EchoMatchesUntrimmed(data, current) == data = matrixToMd(current)

EchoMatches(data, current) == Trim(data) = Trim(matrixToMd(current))

SVDKeep(op) ==
    /\ notified' = 0 /\ UNCHANGED <<hasSM, state, isSaving, saves, calls, refresh,
                   mounted, renderTimeout>>
    /\ lastOp' = op

SetViewData(data, clear, self) ==
    IF isUnloading THEN SVDKeep("svd-unloading")
    ELSE IF ~isPriorityMatrixFile(data) THEN SVDKeep("svd-not-matrix")
    ELSE LET fresh == ~hasSM \/ clear
             saving == IF fresh THEN FALSE ELSE isSaving
             current == IF fresh THEN NoState ELSE state
             calls1 == IF fresh THEN DetachCalls(calls, state) ELSE calls
             refresh1 == IF fresh THEN DetachRefresh(refresh, state) ELSE refresh
         IN /\ hasSM' = TRUE
            /\ saves' = (IF fresh THEN Disown(saves) ELSE saves)
            /\ mounted' = (IF fresh THEN FALSE ELSE mounted)
            /\ isSaving' = saving
            /\ IF saving
               THEN /\ notified' = 0 /\ UNCHANGED <<state, calls, refresh, renderTimeout>>
                    /\ lastOp' = "svd-saving"
               ELSE IF current # NoState /\ ~clear
               THEN /\ calls' = Append(calls1, [data |-> data, self |-> self, cur |-> Live])
                    /\ notified' = 0 /\ UNCHANGED <<state, refresh, renderTimeout>>
                    /\ lastOp' = "svd-await"
               ELSE /\ state' = mdToMatrix(data)
                    /\ notified' = 1
                    /\ calls' = DetachCalls(calls1, state)
                    /\ refresh' = DetachRefresh(refresh1, state)
                    /\ renderTimeout' = TRUE
                    /\ lastOp' = "svd-loaded"

\* onload / onOpen: vault.read(file) resolves and setViewData(data, true) runs
ReadDone(site) ==
    /\ site \in pendingReads
    /\ pendingReads' = pendingReads \ {site}
    /\ IF fileExists THEN SetViewData(file, TRUE, FALSE) ELSE SVDKeep("read-failed")
    /\ UNCHANGED <<vaultVars, isUnloading, life, gestures>>
    /\ UNCHANGED <<defaults, docs, manager>>

\* the host delivers a change notification: setViewData(data, false)
NotifDeliver ==
    /\ notifs # <<>>
    /\ notifs' = Tail(notifs)
    /\ SetViewData(Head(notifs).data, FALSE, Head(notifs).self)
    /\ UNCHANGED <<file, fileExists, externals, writeFailures, pendingReads, isUnloading,
                   life, gestures>>
    /\ UNCHANGED <<defaults, docs, manager>>

(***************************************************************************)
(* setViewData after its await: the comparison with the serialization of   *)
(* currentState, then getParsedMatrix and the scheduling of the render.    *)
(***************************************************************************)
SetViewDataResume ==
    /\ calls # <<>>
    /\ LET c == Head(calls)
       IN IF EchoMatches(c.data, Held(c.cur))
          THEN /\ calls' = Tail(calls)
               /\ notified' = 0 /\ UNCHANGED <<state, refresh, renderTimeout>>
               /\ lastOp' = "resume-echo"
          ELSE /\ state' = mdToMatrix(c.data)
               /\ notified' = 1
               /\ calls' = DetachCalls(Tail(calls), state)
               /\ refresh' = DetachRefresh(refresh, state)
               /\ renderTimeout' = TRUE
               /\ lastOp' = "resume-loaded"
    /\ UNCHANGED <<vaultVars, hasSM, isSaving, saves, pendingReads, isUnloading, life,
                   mounted, gestures>>
    /\ UNCHANGED <<defaults, docs, manager>>

\* the render timer of setViewData fires: render()
RenderTimeoutFire ==
    /\ renderTimeout
    /\ renderTimeout' = FALSE
    /\ mounted' = TRUE
    /\ lastOp' = "render"
    /\ notified' = 0
    /\ UNCHANGED <<vaultVars, smVars, calls, pendingReads, isUnloading, life, refresh,
                   gestures>>
    /\ UNCHANGED <<defaults, docs, manager>>

(***************************************************************************)
(* User gestures reach the State Manager through the rendered component:   *)
(* the document has finished opening (both reads of the open have          *)
(* resolved), the component is rendered on the current State Manager, and  *)
(* the view is not closing.                                                *)
(***************************************************************************)
UserCanAct ==
    pendingReads = {} /\ mounted /\ ~isUnloading /\ hasSM /\ state # NoState

(***************************************************************************)
(* handlePointerDragEnd: the drop of a dragged item, then save().          *)
(***************************************************************************)
SectionOf(m, itemId) == {sec \in Sections : FindIndex(m.lists[sec], itemId) # 0}

DropOutcomeIndexAsGiven(m, itemId, from, to, insertIndex) ==
    moveItem(m, itemId, from, to, insertIndex)

DropOutcome(m, itemId, from, to, insertIndex) ==
    LET originalIndex == FindIndex(m.lists[from], itemId) - 1
        finalIndex == IF originalIndex >= 0 /\ insertIndex > originalIndex
                      THEN insertIndex + 1 ELSE insertIndex
    IN IF to # from THEN moveItem(m, itemId, from, to, insertIndex)
       ELSE moveItem(m, itemId, from, to, finalIndex)

Drop(itemId, from, to, insertIndex) ==
    /\ UserCanAct
    /\ gestures + externals < MaxEvents
    /\ from \in SectionOf(state, itemId)
    /\ to # from \/ insertIndex >= 0
    /\ LET o == DropOutcome(state, itemId, from, to, insertIndex)
       IN /\ state' = o.m
          /\ notified' = (IF o.notified THEN 1 ELSE 0)
          /\ saves' = SaveStarted(o.m, saves, "drop")
          /\ isSaving' = SavingAfterStart(o.m, isSaving)
    /\ gestures' = gestures + 1
    /\ lastOp' = "drop"
    /\ UNCHANGED <<vaultVars, hasSM, calls, pendingReads, isUnloading, life,
                   renderTimeout, mounted, refresh>>
    /\ UNCHANGED <<defaults, docs, manager>>

(***************************************************************************)
(* StateManager.save() after its awaits.  The vault completes the writes   *)
(* of one file in the order they were requested.                           *)
(***************************************************************************)
\* vault.modify resolves: the file holds the text, the host will notify
SaveWriteDone ==
    /\ Writers # {}
    /\ LET i == Min(Writers)
       IN /\ file' = saves[i].md
          /\ notifs' = Append(notifs, [data |-> saves[i].md, self |-> TRUE])
          /\ saves' = [saves EXCEPT ![i].pc = "grace"]
    /\ fileExists' = TRUE
    /\ lastOp' = "write-done"
    /\ notified' = 0
    /\ UNCHANGED <<externals, writeFailures, hasSM, state, isSaving, viewVars>>
    /\ UNCHANGED <<defaults, docs, manager>>

\* the flag as the finally block of save() leaves it
FlagAfterFinally(i) == IF saves[i].own THEN FALSE ELSE isSaving

SaveWriteFailRollsBack ==
    /\ Writers # {}
    /\ LET i == Min(Writers)
       IN /\ saves' = RemoveAt(saves, i)
          /\ isSaving' = FlagAfterFinally(i)
    /\ state' = (IF fileExists THEN mdToMatrix(file) ELSE state)
    /\ writeFailures' = writeFailures + 1
    /\ lastOp' = "write-failed"
    /\ notified' = 0
    /\ UNCHANGED <<file, fileExists, notifs, externals, hasSM, viewVars>>
    /\ UNCHANGED <<defaults, docs, manager>>

\* a save() without its finally block: a rejected write leaves the flag set
SaveWriteFailKeepsFlag ==
    /\ Writers # {}
    /\ saves' = RemoveAt(saves, Min(Writers))
    /\ writeFailures' = writeFailures + 1
    /\ lastOp' = "write-failed"
    /\ notified' = 0
    /\ UNCHANGED <<file, fileExists, notifs, externals, hasSM, state, isSaving, viewVars>>
    /\ UNCHANGED <<defaults, docs, manager>>

\* vault.modify rejects: the finally block runs, the error propagates
SaveWriteFail ==
    /\ Writers # {}
    /\ LET i == Min(Writers)
       IN /\ saves' = RemoveAt(saves, i)
          /\ isSaving' = FlagAfterFinally(i)
    /\ writeFailures' = writeFailures + 1
    /\ lastOp' = "write-failed"
    /\ notified' = 0
    /\ UNCHANGED <<file, fileExists, notifs, externals, hasSM, state, viewVars>>
    /\ UNCHANGED <<defaults, docs, manager>>

\* the 100 ms timer of save() fires: the finally block runs; refreshTodos,
\* which awaited this save(), renders
SaveGraceEnd ==
    /\ saves # <<>>
    /\ Head(saves).pc = "grace"
    /\ saves' = Tail(saves)
    /\ isSaving' = FlagAfterFinally(1)
    /\ IF Head(saves).src = "refresh" /\ hasSM
       THEN mounted' = TRUE
       ELSE UNCHANGED mounted
    /\ lastOp' = (IF Head(saves).src = "refresh" /\ hasSM THEN "grace-end-render"
                  ELSE "grace-end")
    /\ notified' = 0 /\ UNCHANGED <<vaultVars, hasSM, state, calls, pendingReads, isUnloading,
                   life, renderTimeout, refresh, gestures>>
    /\ UNCHANGED <<defaults, docs, manager>>

(***************************************************************************)
(* The vault: another writer changes the file, or deletes it.              *)
(***************************************************************************)
ExternalWrite(text) ==
    /\ fileExists
    /\ gestures + externals < MaxEvents
    /\ file' = text
    /\ notifs' = Append(notifs, [data |-> text, self |-> FALSE])
    /\ externals' = externals + 1
    /\ lastOp' = "external-write"
    /\ notified' = 0
    /\ UNCHANGED <<fileExists, writeFailures, smVars, viewVars>>
    /\ UNCHANGED <<defaults, docs, manager>>

DeleteFile ==
    /\ fileExists
    /\ fileExists' = FALSE
    /\ lastOp' = "delete"
    /\ notified' = 0
    /\ UNCHANGED <<file, notifs, externals, writeFailures, smVars, viewVars>>
    /\ UNCHANGED <<defaults, docs, manager>>

(***************************************************************************)
(* PriorityMatrixView.onClose and onunload.                                *)
(***************************************************************************)
OnCloseAlwaysSaves ==
    /\ life = "open"
    /\ life' = "closed"
    /\ isUnloading' = TRUE
    /\ IF hasSM
       THEN /\ saves' = SaveStarted(state, saves, "close")
            /\ isSaving' = SavingAfterStart(state, isSaving)
       ELSE UNCHANGED <<saves, isSaving>>
    /\ lastOp' = "close"
    /\ notified' = 0 /\ UNCHANGED <<vaultVars, hasSM, state, calls, pendingReads,
                   renderTimeout, mounted, refresh, gestures>>
    /\ UNCHANGED <<defaults, docs, manager>>

OnClose ==
    /\ life = "open"
    /\ life' = "closed"
    /\ isUnloading' = TRUE
    /\ IF hasSM /\ fileExists
       THEN /\ saves' = SaveStarted(state, saves, "close")
            /\ isSaving' = SavingAfterStart(state, isSaving)
       ELSE UNCHANGED <<saves, isSaving>>
    /\ lastOp' = "close"
    /\ notified' = 0 /\ UNCHANGED <<vaultVars, hasSM, state, calls, pendingReads,
                   renderTimeout, mounted, refresh, gestures>>
    /\ UNCHANGED <<defaults, docs, manager>>

OnUnload ==
    /\ life # "unloaded"
    /\ life' = "unloaded"
    /\ isUnloading' = TRUE
    /\ renderTimeout' = FALSE
    /\ mounted' = FALSE
    /\ lastOp' = "unload"
    /\ notified' = 0
    /\ UNCHANGED <<vaultVars, smVars, calls, pendingReads, refresh, gestures>>
    /\ UNCHANGED <<defaults, docs, manager>>

(***************************************************************************)
(* PriorityMatrixView.refreshTodos: the scan of the vault, then the new    *)
(* items pushed to the Todo bank of the matrix it read at its start,       *)
(* setState, save() and, after the save, render().                         *)
(***************************************************************************)
RefreshStart ==
    /\ UserCanAct
    /\ refresh.pc = "idle"
    /\ gestures + externals < MaxEvents
    /\ gestures' = gestures + 1
    /\ refresh' = [pc |-> "scan", cur |-> Live]
    /\ lastOp' = "refresh-start"
    /\ notified' = 0
    /\ UNCHANGED <<vaultVars, smVars, calls, pendingReads, isUnloading, life,
                   renderTimeout, mounted>>
    /\ UNCHANGED <<defaults, docs, manager>>

ExistingPaths(m) ==
    UNION {{WikiPath(m.lists[sec][i].titleRaw) : i \in 1..Len(m.lists[sec])} : sec \in Sections}
        \ {""}

RECURSIVE PathItems(_)
PathItems(paths) ==
    IF paths = {} THEN <<>>
    ELSE LET p == CHOOSE x \in paths : TRUE
         IN <<MkItem(p, WikiText(p), FALSE)>> \o PathItems(paths \ {p})

NewPathsNotCompared(found, exemptSet, existingPaths) == found \ exemptSet

\* filteredResults without the paths in existingPaths
FilterNewPaths(found, exemptSet, existingPaths) == (found \ exemptSet) \ existingPaths

NewPaths(m, found) == FilterNewPaths(found, ExemptPaths(m.settings), ExistingPaths(m))

RefreshFinish(found) ==
    /\ refresh.pc = "scan"
    /\ refresh' = Idle
    /\ LET matrix == Held(refresh.cur)
           new == NewPaths(matrix, found)
           updated == [matrix EXCEPT !.lists["todo"] = @ \o PathItems(new)]
       IN IF new = {} \/ ~hasSM
          THEN /\ notified' = 0 /\ UNCHANGED <<state, saves, isSaving, calls>>
               /\ lastOp' = "refresh-nothing"
          ELSE /\ state' = updated
               /\ notified' = 1
               /\ calls' = (IF refresh.cur.live THEN calls ELSE DetachCalls(calls, state))
               /\ saves' = SaveStarted(updated, saves, "refresh")
               /\ isSaving' = SavingAfterStart(updated, isSaving)
               /\ lastOp' = "refresh-added"
    /\ UNCHANGED <<vaultVars, hasSM, pendingReads, isUnloading, life, renderTimeout,
                   mounted, gestures>>
    /\ UNCHANGED <<defaults, docs, manager>>

(***************************************************************************)
(* The view on its open document: reads, change notifications, drops and   *)
(* the saves they start, and the writes of another writer.                 *)
(***************************************************************************)
Next ==
    \/ \E site \in {"onload", "onOpen"} : ReadDone(site)
    \/ NotifDeliver
    \/ SetViewDataResume
    \/ RenderTimeoutFire
    \/ \E itemId \in DropItems, from \in Sections, to \in DropSections,
          insertIndex \in DropIndexes : Drop(itemId, from, to, insertIndex)
    \/ SaveWriteDone
    \/ SaveWriteFail
    \/ SaveGraceEnd
    \/ \E text \in ExternalTexts : ExternalWrite(text)

Spec == Init /\ [][Next]_vars

(***************************************************************************)
(* The life of the view: the refresh of the Todo bank, the deletion of     *)
(* the file, onClose and onunload.                                         *)
(***************************************************************************)
NextLife ==
    \/ \E site \in {"onload", "onOpen"} : ReadDone(site)
    \/ NotifDeliver
    \/ SetViewDataResume
    \/ RenderTimeoutFire
    \/ SaveWriteDone
    \/ SaveWriteFail
    \/ SaveGraceEnd
    \/ \E text \in ExternalTexts : ExternalWrite(text)
    \/ DeleteFile
    \/ OnClose
    \/ OnUnload
    \/ RefreshStart
    \/ \E found \in SUBSET ScanPaths : RefreshFinish(found)

SpecLife == Init /\ [][NextLife]_vars

(***************************************************************************)
(* The State Manager on its own, as any holder of the object may call it:  *)
(* constructed without a Matrix, then getParsedMatrix, moveItem and save() *)
(* in any order.                                                           *)
(***************************************************************************)
InitSM ==
    /\ file = InitText
    /\ fileExists = TRUE
    /\ notifs = <<>>
    /\ hasSM = TRUE
    /\ state = NoState
    /\ isSaving = FALSE
    /\ notified = 0
    /\ saves = <<>>
    /\ calls = <<>>
    /\ pendingReads = {}
    /\ isUnloading = FALSE
    /\ life = "open"
    /\ renderTimeout = FALSE
    /\ mounted = FALSE
    /\ refresh = Idle
    /\ gestures = 0
    /\ externals = 0
    /\ writeFailures = 0
    /\ lastOp = "init"
    /\ SettingsIdle

SMCalled(op) ==
    /\ gestures < MaxCalls
    /\ gestures' = gestures + 1
    /\ lastOp' = op
    /\ UNCHANGED <<vaultVars, hasSM, calls, pendingReads, isUnloading, life,
                   renderTimeout, mounted, refresh>>
    /\ UNCHANGED <<defaults, docs, manager>>

getParsedMatrix(md) ==
    /\ state' = mdToMatrix(md)
    /\ notified' = 1
    /\ UNCHANGED <<saves, isSaving>>
    /\ SMCalled("getParsedMatrix")

save ==
    /\ saves' = SaveStarted(state, saves, "call")
    /\ isSaving' = SavingAfterStart(state, isSaving)
    /\ notified' = 0
    /\ UNCHANGED state
    /\ SMCalled(IF state = NoState THEN "save-without-matrix" ELSE "save")

MoveItemCall(itemId, from, to, insertIndex) ==
    /\ LET o == moveItem(state, itemId, from, to, insertIndex)
       IN /\ state' = o.m
          /\ notified' = (IF o.notified THEN 1 ELSE 0)
    /\ UNCHANGED <<saves, isSaving>>
    /\ SMCalled("moveItem")

NextSM ==
    \/ \E md \in ExternalTexts \cup {InitText} : getParsedMatrix(md)
    \/ save
    \/ \E itemId \in DropItems, from \in DropSections, to \in DropSections,
          insertIndex \in DropIndexes : MoveItemCall(itemId, from, to, insertIndex)
    \/ SaveWriteDone
    \/ SaveWriteFail
    \/ SaveGraceEnd

SpecSM == InitSM /\ [][NextSM]_vars

(***************************************************************************)
(* The same with the scheduling save() relies on: the promise of           *)
(* vault.modify settles, resolved or rejected, and the 100 ms timer of     *)
(* save() fires.                                                           *)
(***************************************************************************)
SpecSMFair ==
    /\ SpecSM
    /\ WF_vars(SaveWriteDone \/ SaveWriteFail)
    /\ WF_vars(SaveGraceEnd)

(***************************************************************************)
(* The operations of the State Manager on a loaded Matrix: any holder of   *)
(* the object calls moveItem, reorderItem, addItem, removeItem, setState   *)
(* and getParsedMatrix with any arguments.  lastOp is the call made, with  *)
(* its arguments.                                                          *)
(***************************************************************************)
\* an unticked plain-text item whose id is its title
PlainItem(id) == MkItem(id, id, FALSE)

OpsMatrices ==
    { MkMatrix([EmptyLists EXCEPT
                   !["todo"] = <<PlainItem("x"), PlainItem("y"), PlainItem("z")>>],
               DEFAULT_SETTINGS, <<>>),
      MkMatrix([EmptyLists EXCEPT
                   !["q2"] = <<ItemA, PlainItem("b"), PlainItem("c"), PlainItem("d")>>],
               DEFAULT_SETTINGS, <<>>),
      MkMatrix([EmptyLists EXCEPT
                   !["todo"] = <<PlainItem("x")>>,
                   !["q1"] = <<PlainItem("y")>>,
                   !["done"] = <<[ItemA EXCEPT !.checked = TRUE]>>],
               DEFAULT_SETTINGS, <<>>) }

\* a task ticked by hand under a quadrant heading, and one under TODO
OpsTexts ==
    { <<Heading("Q1"), Blank, Task("a", TRUE)>>,
      <<Heading("TODO"), Blank, Task("a", TRUE), Task("b", FALSE)>> }

OpsIds == {"y", "a"}
MoveSections == {"todo", "q1", "done"}
ReorderSections == {"todo", "q2", "done"}
OpsIndexes == {NoIndex, -2, 0, 3}
AddTexts == {"t ", "p q", "p-q"}
NowValues == {1, 2}

\* Date.now() never goes back: not below the time of an item made before
ClockFloor(m) ==
    LET times == {TimeOfId(id) : id \in AllIds(m)} \cup {0}
    IN CHOOSE t \in times : \A u \in times : u <= t

\* the call made last, and what the subscribed listener was shown during it
Called(op, itemId, from, to, insertIndex) ==
    [op |-> op, itemId |-> itemId, from |-> from, to |-> to, insertIndex |-> insertIndex,
     seen |-> <<>>]

Heard(call, o) == [call EXCEPT !.seen = o.seen]

InitOps ==
    /\ file = InitText
    /\ fileExists = TRUE
    /\ notifs = <<>>
    /\ hasSM = TRUE
    /\ state \in OpsMatrices
    /\ isSaving = FALSE
    /\ notified = 0
    /\ saves = <<>>
    /\ calls = <<>>
    /\ pendingReads = {}
    /\ isUnloading = FALSE
    /\ life = "open"
    /\ renderTimeout = FALSE
    /\ mounted = FALSE
    /\ refresh = Idle
    /\ gestures = 0
    /\ externals = 0
    /\ writeFailures = 0
    /\ lastOp = Called("init", "", "", "", NoIndex)
    /\ SettingsIdle

Applied(o) ==
    /\ gestures < MaxOps
    /\ gestures' = gestures + 1
    /\ state' = o.m
    /\ notified' = Len(o.seen)
    /\ UNCHANGED <<vaultVars, hasSM, isSaving, saves, calls, pendingReads, isUnloading,
                   life, renderTimeout, mounted, refresh>>
    /\ UNCHANGED <<defaults, docs, manager>>

MoveItem(itemId, from, to, insertIndex) ==
    /\ lastOp' = Heard(Called("moveItem", itemId, from, to, insertIndex),
                       moveItem(state, itemId, from, to, insertIndex))
    /\ Applied(moveItem(state, itemId, from, to, insertIndex))

ReorderItem(itemId, section, insertIndex) ==
    /\ lastOp' = Heard(Called("reorderItem", itemId, section, section, insertIndex),
                       reorderItem(state, itemId, section, insertIndex))
    /\ Applied(reorderItem(state, itemId, section, insertIndex))

AddItem(now, text, section, insertIndex) ==
    /\ now >= ClockFloor(state)
    /\ lastOp' = Heard(Called("addItem", ItemId(now, text), text, section, insertIndex),
                       addItem(state, now, text, section, insertIndex))
    /\ Applied(addItem(state, now, text, section, insertIndex))

RemoveItem(itemId, section) ==
    /\ lastOp' = Heard(Called("removeItem", itemId, section, section, NoIndex),
                       removeItem(state, itemId, section))
    /\ Applied(removeItem(state, itemId, section))

SetState(matrix) ==
    /\ lastOp' = Heard(Called("setState", "", "", "", NoIndex), setState(state, matrix))
    /\ Applied(setState(state, matrix))

Load(md) ==
    /\ lastOp' = Heard(Called("getParsedMatrix", "", "", "", NoIndex),
                       Outcome(mdToMatrix(md), TRUE))
    /\ Applied(Outcome(mdToMatrix(md), TRUE))

\* handlePointerDragEnd on a drop within the section the drag started in,
\* insertIndex being the index calculateInsertIndex found in the list of
\* the section without the dragged item; the save() it starts is the
\* subject of the view's specification
DropWithin(itemId, section, insertIndex) ==
    /\ FindIndex(state.lists[section], itemId) # 0
    /\ insertIndex <= Len(state.lists[section]) - 1
    /\ lastOp' = Heard(Called("drop", itemId, section, section, insertIndex),
                       DropOutcome(state, itemId, section, section, insertIndex))
    /\ Applied(DropOutcome(state, itemId, section, section, insertIndex))

NextOps ==
    \/ \E itemId \in OpsIds, section \in ReorderSections, insertIndex \in 0..3 :
          DropWithin(itemId, section, insertIndex)
    \/ \E itemId \in OpsIds, from \in MoveSections, to \in MoveSections,
          insertIndex \in OpsIndexes : MoveItem(itemId, from, to, insertIndex)
    \/ \E itemId \in OpsIds, section \in ReorderSections, insertIndex \in OpsIndexes :
          ReorderItem(itemId, section, insertIndex)
    \/ \E now \in NowValues, text \in AddTexts, section \in {"todo", "done"},
          insertIndex \in {NoIndex, 0} : AddItem(now, text, section, insertIndex)
    \/ \E itemId \in OpsIds, section \in ReorderSections : RemoveItem(itemId, section)
    \/ \E matrix \in OpsMatrices : SetState(matrix)
    \/ \E md \in OpsTexts : Load(md)

SpecOps == InitOps /\ [][NextOps]_vars

(***************************************************************************)
(* A document through loads, operations and saves: the file is parsed      *)
(* into the Matrix, operations change the Matrix, save() writes            *)
(* matrixToMd of the Matrix into the file (the write taken as one step)    *)
(* and the file is loaded again.                                           *)
(***************************************************************************)
DocTexts ==
    { \* front matter with a word key and a hyphenated key, a TODO list
      <<FmDelim, KeyValue("title", "hello"), KeyValue("my-key", "1"), FmDelim, Blank,
        Heading("TODO"), Blank, Task("[[n]]", FALSE), Task("[[m]]", TRUE)>>,
      \* a heading that names no section, an unticked task under DONE
      <<Heading("TODO"), Blank, Bullet("a"), Blank, Heading("Notes"), Blank, Bullet("b"),
        Blank, Heading("DONE"), Blank, Task("c", FALSE)>>,
      \* bullets before any section heading, a settings block that is not JSON
      <<Bullet("a"), Blank, Heading("Notes"), Blank, Bullet("b"), Blank,
        Heading("settingsJson"), Blank, FenceJson, JsonLine("{broken"), FenceEnd>>,
      \* a document written by the serializer, with settings of its own
      matrixToMd(MkMatrix([EmptyLists EXCEPT !["q1"] = <<ItemA>>], CustomSettings, <<>>)) }

InitDoc ==
    /\ file \in DocTexts
    /\ fileExists = TRUE
    /\ notifs = <<>>
    /\ hasSM = TRUE
    /\ state = mdToMatrix(file)
    /\ isSaving = FALSE
    /\ notified = 1
    /\ saves = <<>>
    /\ calls = <<>>
    /\ pendingReads = {}
    /\ isUnloading = FALSE
    /\ life = "open"
    /\ renderTimeout = FALSE
    /\ mounted = FALSE
    /\ refresh = Idle
    /\ gestures = 0
    /\ externals = 0
    /\ writeFailures = 0
    /\ lastOp = Heard(Called("getParsedMatrix", "", "", "", NoIndex),
                      Outcome(mdToMatrix(file), TRUE))
    /\ SettingsIdle

\* save() and its vault.modify, completed
SaveDoc ==
    /\ file' = matrixToMd(state)
    /\ lastOp' = Called("save", "", "", "", NoIndex)
    /\ notified' = 0
    /\ UNCHANGED <<fileExists, notifs, externals, writeFailures, hasSM, state, isSaving,
                   saves, calls, pendingReads, isUnloading, life, renderTimeout, mounted,
                   refresh, gestures>>
    /\ UNCHANGED <<defaults, docs, manager>>

\* onClose of the view on the document, with the save() it awaits completed
CloseDoc ==
    /\ life = "open"
    /\ life' = "closed"
    /\ isUnloading' = TRUE
    /\ file' = (IF hasSM /\ fileExists /\ state # NoState THEN matrixToMd(state) ELSE file)
    /\ lastOp' = Called("close", "", "", "", NoIndex)
    /\ notified' = 0
    /\ UNCHANGED <<fileExists, notifs, externals, writeFailures, hasSM, state, isSaving,
                   saves, calls, pendingReads, renderTimeout, mounted, refresh, gestures>>
    /\ UNCHANGED <<defaults, docs, manager>>

NextDoc ==
    \/ CloseDoc
    \/ \E itemId \in {"n", "a"}, from \in {"todo", "q1", "done"},
          to \in {"todo", "q1", "done"} : MoveItem(itemId, from, to, NoIndex)
    \/ \E text \in {"t ", "see [[n]]"} : AddItem(1, text, "todo", NoIndex)
    \/ SaveDoc
    \/ Load(file)

SpecDoc == InitDoc /\ [][NextDoc]_vars

(***************************************************************************)
(* Settings objects.  A document's data.settings is a reference: to the    *)
(* module-level DEFAULT_SETTINGS object itself when the text has no        *)
(* settings block or one JSON.parse rejects, to an object of its own       *)
(* (Object.assign({}, DEFAULT_SETTINGS, parsed)) otherwise.  Two documents *)
(* are open; either is loaded from any of the texts, and the exemption     *)
(* entry of an item's menu is chosen in either.                            *)
(***************************************************************************)
DocNames == {"A", "B"}

CustomSettingsObject ==
    [autoRemoveTodoOnDone |-> TRUE, enableStrikethroughOnDone |-> FALSE,
     exemptPaths |-> <<"m">>]

\* JSON.parse of the settings texts it accepts; "{}" is the empty object
JsonObject(jsonStr) ==
    CASE jsonStr = DEFAULT_SETTINGS -> DefaultSettingsObject
      [] jsonStr = CustomSettings -> CustomSettingsObject
      [] jsonStr = "{}" -> [f \in {} |-> FALSE]

Parseable(jsonStr) == jsonStr \in ValidSettingsJson \cup {"{}"}

\* Object.assign({}, target, source)
Assign(target, source) ==
    [f \in DOMAIN target \cup DOMAIN source |->
        IF f \in DOMAIN source THEN source[f] ELSE target[f]]

\* parsed.settings of parseMarkdown: the trimmed capture, "" for none
CapturedSettings(c) ==
    LET m == SettingsMatch(c)
        captured == IF m[3] = 0 THEN <<>> ELSE Trim(SubSeq(c, m[2] + 1, m[3] - 1))
    IN IF Len(captured) = 1 /\ captured[1].k = "json" THEN captured[1].t ELSE ""

\* data.settings after astToUnhydratedMatrix: shared is the reference to
\* DEFAULT_SETTINGS (own is then unused), else own is the document's object
LoadedSettings(md, dflt) ==
    LET json == CapturedSettings(ContentWithoutFrontmatter(md))
    IN IF json = "" \/ ~Parseable(json)
       THEN [shared |-> TRUE, own |-> DefaultSettingsObject]
       ELSE [shared |-> FALSE, own |-> Assign(dflt, JsonObject(json))]

LoadedDoc(md, dflt) ==
    [lists |-> mdToMatrix(md).lists, settings |-> LoadedSettings(md, dflt)]

\* the object data.settings refers to
SettingsOf(doc, dflt) == IF doc.settings.shared THEN dflt ELSE doc.settings.own

SettingsTexts ==
    { <<Heading("TODO"), Blank, Task("[[n]]", FALSE)>>,
      <<Heading("Q1"), Blank, Bullet("[[n]]"), Blank, Heading("settingsJson"), Blank,
        FenceJson, JsonLine("{broken"), FenceEnd>>,
      <<Heading("TODO"), Blank, Task("[[n]]", FALSE), Blank, Heading("settingsJson"),
        Blank, FenceJson, JsonLine("{}"), FenceEnd>>,
      <<Para("hello")>>,
      matrixToMd(MkMatrix([EmptyLists EXCEPT !["todo"] = <<MkItem("n", "[[n]]", FALSE)>>],
                          CustomSettings, <<>>)) }

\* the step made on a document of the settings specification
DocStep(op, d, md) == [op |-> op, doc |-> d, text |-> md]

InitSettings ==
    /\ file = InitText
    /\ fileExists = TRUE
    /\ notifs = <<>>
    /\ hasSM = TRUE
    /\ state = NoState
    /\ isSaving = FALSE
    /\ notified = 0
    /\ saves = <<>>
    /\ calls = <<>>
    /\ pendingReads = {}
    /\ isUnloading = FALSE
    /\ life = "open"
    /\ renderTimeout = FALSE
    /\ mounted = FALSE
    /\ refresh = Idle
    /\ gestures = 0
    /\ externals = 0
    /\ writeFailures = 0
    /\ lastOp = DocStep("init", "", <<>>)
    /\ defaults = DefaultSettingsObject
    /\ docs \in [DocNames -> {LoadedDoc(md, DefaultSettingsObject) : md \in SettingsTexts}]
    /\ manager = <<>>

\* getParsedMatrix(md) of the State Manager of document d
LoadDoc(d, md) ==
    /\ docs' = [docs EXCEPT ![d] = LoadedDoc(md, defaults)]
    /\ lastOp' = DocStep("load", d, md)
    /\ notified' = 1
    /\ UNCHANGED <<defaults, manager, vaultVars, smVars, viewVars>>

(***************************************************************************)
(* Item.tsx, "add to exemption list": the item's file path is added to     *)
(* settings.exemptPaths of the object data.settings refers to, then        *)
(* setState(current) and removeItem(item.id, section); the write of the    *)
(* save() that follows is the subject of the view's specification.         *)
(***************************************************************************)
Exempt(d, itemId, section) ==
    LET doc == docs[d]
        settings == SettingsOf(doc, defaults)
        list == IF \E i \in 1..Len(settings.exemptPaths) : settings.exemptPaths[i] = itemId
                THEN settings.exemptPaths
                ELSE Append(settings.exemptPaths, itemId)
        removed == removeItem(MkMatrix(doc.lists, DEFAULT_SETTINGS, <<>>), itemId, section)
    IN /\ FindIndex(doc.lists[section], itemId) # 0
       /\ itemId \in ScanPaths
       /\ defaults' = (IF doc.settings.shared THEN [defaults EXCEPT !.exemptPaths = list]
                       ELSE defaults)
       /\ docs' = [docs EXCEPT ![d].lists = removed.m.lists,
                               ![d].settings.own =
                                   IF doc.settings.shared THEN @
                                   ELSE [@ EXCEPT !.exemptPaths = list]]
       /\ lastOp' = DocStep("exempt", d, <<>>)
       /\ notified' = 2
       /\ UNCHANGED <<manager, vaultVars, smVars, viewVars>>

\* refreshTodos on document d, the scan having found the paths of found
RefreshDoc(d, found) ==
    LET doc == docs[d]
        settings == SettingsOf(doc, defaults)
        exemptSet == {settings.exemptPaths[i] : i \in 1..Len(settings.exemptPaths)}
        matrix == MkMatrix(doc.lists, DEFAULT_SETTINGS, <<>>)
        new == FilterNewPaths(found, exemptSet, ExistingPaths(matrix))
    IN /\ docs' = [docs EXCEPT ![d].lists["todo"] = @ \o PathItems(new)]
       /\ lastOp' = DocStep(IF new = {} THEN "refresh-nothing" ELSE "refresh", d, <<>>)
       /\ notified' = (IF new = {} THEN 0 ELSE 1)
       /\ UNCHANGED <<defaults, manager, vaultVars, smVars, viewVars>>

NextSettings ==
    \/ \E d \in DocNames, md \in SettingsTexts : LoadDoc(d, md)
    \/ \E d \in DocNames, itemId \in ScanPaths, section \in {"todo", "q1"} :
          Exempt(d, itemId, section)
    \/ \E d \in DocNames, found \in SUBSET ScanPaths : RefreshDoc(d, found)

SpecSettings == InitSettings /\ [][NextSettings]_vars

(***************************************************************************)
(* The settings modal of one document: SettingsManager.constructUI with    *)
(* local = true, its "Auto-remove todo on done" and "Strikethrough todo on *)
(* done" toggles and their "Reset to default" buttons.  An updateFn is     *)
(* [key, value, exclusive]; exclusive is the toggle's "if auto-remove is   *)
(* enabled, disable strikethrough".  The toggles hand over the value they  *)
(* are switched to.  The 'change' event the reset buttons dispatch on the  *)
(* checkbox schedules nothing that outlasts the applySettingsUpdate call   *)
(* that follows it, except the 100 ms timer of the auto-remove toggle,     *)
(* which is set or not.                                                    *)
(***************************************************************************)
Flags(autoRemove, strikethrough) ==
    [autoRemoveTodoOnDone |-> autoRemove, enableStrikethroughOnDone |-> strikethrough]

\* JSON.stringify of the settings object, as the text of the settings block
SettingsJson(settings) ==
    CASE settings = Flags(FALSE, TRUE) -> DEFAULT_SETTINGS
      [] settings = Flags(TRUE, FALSE) -> CustomSettings
      [] settings = Flags(FALSE, FALSE) -> "plain"
      [] settings = Flags(TRUE, TRUE) -> "both"

InitUI ==
    /\ file = InitText
    /\ fileExists = TRUE
    /\ notifs = <<>>
    /\ hasSM = TRUE
    /\ isSaving = FALSE
    /\ notified = 0
    /\ saves = <<>>
    /\ calls = <<>>
    /\ pendingReads = {}
    /\ isUnloading = FALSE
    /\ life = "open"
    /\ renderTimeout = FALSE
    /\ mounted = FALSE
    /\ refresh = Idle
    /\ gestures = 0
    /\ externals = 0
    /\ writeFailures = 0
    /\ lastOp = "constructUI"
    /\ defaults = DefaultSettingsObject
    /\ docs = <<>>
    /\ \E local \in {Flags(FALSE, TRUE), Flags(FALSE, FALSE), Flags(TRUE, FALSE)},
          global \in {Flags(FALSE, TRUE), Flags(TRUE, FALSE)} :
          /\ state = [InitMatrix EXCEPT !.settings = SettingsJson(local)]
          /\ manager = [settings |-> local,       \* this.settings
                        cur |-> Live,             \* matrix of getMatrixSettings
                        global |-> global,        \* this.plugin.settings
                        disabled |-> local.autoRemoveTodoOnDone,  \* of the second toggle
                        pending |-> <<>>,         \* updateFn of applyDebounceTimer
                        timers |-> <<>>,          \* the 100 ms timers, oldest first
                        delivered |-> <<>>,       \* last argument of onSettingsChange
                        edits |-> <<>>]           \* every updateFn handed over since

\* updateFn(current)
Updated(updateFn, current) ==
    IF updateFn.key = "autoRemoveTodoOnDone"
    THEN [current EXCEPT !.autoRemoveTodoOnDone = updateFn.value,
                         !.enableStrikethroughOnDone =
                             IF updateFn.exclusive /\ updateFn.value THEN FALSE ELSE @]
    ELSE [current EXCEPT !.enableStrikethroughOnDone = updateFn.value]

\* applySettingsUpdate(updateFn): clearTimeout, then setTimeout(..., 1000)
applySettingsUpdate(key, value, exclusive, timers) ==
    /\ gestures < MaxOps
    /\ gestures' = gestures + 1
    /\ manager' = [manager EXCEPT
                      !.pending = <<[key |-> key, value |-> value, exclusive |-> exclusive]>>,
                      !.edits = Append(@, [key |-> key, value |-> value,
                                           exclusive |-> exclusive]),
                      !.timers = timers]
    /\ UNCHANGED <<vaultVars, smVars, calls, pendingReads, isUnloading, life, renderTimeout,
                   mounted, refresh, defaults, docs>>

\* toggle.onChange of "Auto-remove todo on done"
ToggleAutoRemove(newValue) ==
    /\ applySettingsUpdate("autoRemoveTodoOnDone", newValue, TRUE,
                           Append(manager.timers, newValue))
    /\ lastOp' = "toggle-auto-remove"
    /\ notified' = 0

\* "Reset to default" of "Auto-remove todo on done"
ResetAutoRemove(heard) ==
    LET defaultValue == manager.global.autoRemoveTodoOnDone
    IN /\ applySettingsUpdate("autoRemoveTodoOnDone", defaultValue, FALSE,
                              IF heard THEN Append(manager.timers, defaultValue)
                              ELSE manager.timers)
       /\ lastOp' = "reset-auto-remove"
       /\ notified' = 0

\* toggle.onChange of "Strikethrough todo on done"; a disabled toggle is not switched
ToggleStrikethrough(newValue) ==
    /\ ~manager.disabled
    /\ applySettingsUpdate("enableStrikethroughOnDone", newValue, FALSE, manager.timers)
    /\ lastOp' = "toggle-strikethrough"
    /\ notified' = 0

\* "Reset to default" of "Strikethrough todo on done"
ResetStrikethrough ==
    /\ applySettingsUpdate("enableStrikethroughOnDone",
                           manager.global.enableStrikethroughOnDone, FALSE, manager.timers)
    /\ lastOp' = "reset-strikethrough"
    /\ notified' = 0

\* the 100 ms timer of the auto-remove toggle: strikethroughToggle.disabled = newValue
DisableTimerFire ==
    /\ manager.timers # <<>>
    /\ manager' = [manager EXCEPT !.disabled = Head(manager.timers),
                                  !.timers = Tail(manager.timers)]
    /\ lastOp' = "disable-timer"
    /\ notified' = 0
    /\ UNCHANGED <<vaultVars, smVars, viewVars, defaults, docs>>

\* onSettingsChange of getMatrixSettings: updatedMatrix, from the matrix
\* the closure took hold of when the modal was opened
OnSettingsChange(settings) ==
    [Held(manager.cur) EXCEPT !.settings = SettingsJson(settings)]

(***************************************************************************)
(* applyDebounceTimer fires, 1000 ms after the last call: every 100 ms     *)
(* timer has fired.  onSettingsChange runs setState(updatedMatrix) and     *)
(* save(), here up to its first await.  updatedMatrix shares its lists     *)
(* with the matrix of the closure, which is what is held from now on.      *)
(***************************************************************************)
DebounceFire ==
    /\ manager.pending # <<>>
    /\ manager.timers = <<>>
    /\ LET settings == Updated(Head(manager.pending), manager.settings)
       IN /\ manager' = [manager EXCEPT !.settings = settings,
                                        !.pending = Tail(manager.pending),
                                        !.delivered = <<settings>>,
                                        !.edits = <<>>,
                                        !.cur = Live]
          /\ state' = OnSettingsChange(settings)
          /\ saves' = SaveStarted(OnSettingsChange(settings), saves, "settings")
          /\ isSaving' = SavingAfterStart(OnSettingsChange(settings), isSaving)
    /\ lastOp' = "onSettingsChange"
    /\ notified' = 1
    /\ UNCHANGED <<vaultVars, hasSM, viewVars, defaults, docs>>

\* the file is changed by another writer and setViewData loads it:
\* getParsedMatrix(data) replaces the Matrix while the modal is open
ReloadUI(md) ==
    /\ md # file
    /\ file' = md
    /\ state' = mdToMatrix(md)
    /\ manager' = [manager EXCEPT !.cur = IF @.live THEN Kept(state) ELSE @]
    /\ lastOp' = "svd-loaded"
    /\ notified' = 1
    /\ UNCHANGED <<fileExists, notifs, externals, writeFailures, hasSM, isSaving, saves,
                   viewVars, defaults, docs>>

NextUI ==
    \/ \E newValue \in BOOLEAN : ToggleAutoRemove(newValue)
    \/ \E heard \in BOOLEAN : ResetAutoRemove(heard)
    \/ \E newValue \in BOOLEAN : ToggleStrikethrough(newValue)
    \/ ResetStrikethrough
    \/ DisableTimerFire
    \/ DebounceFire
    \/ \E md \in {InitText, matrixToMd(EditedMatrix)} : ReloadUI(md)

SpecUI == InitUI /\ [][NextUI]_vars

(***************************************************************************)
(* Steps of setViewData, as the claims speak of them.                      *)
(***************************************************************************)
\* a change notification is delivered in this step
Delivered == notifs # <<>> /\ notifs' = Tail(notifs)

\* a suspended setViewData makes its comparison in this step
Compared == lastOp' \in {"resume-echo", "resume-loaded"}

\* the Matrix is replaced by a load of incoming text in this step
Loaded == lastOp' \in {"svd-loaded", "resume-loaded"}

\* the text differs, after trimming, from the serialization of the Matrix
Differs(data, m) == Trim(data) # Trim(matrixToMd(m))

(***************************************************************************)
(* C1: the Matrix is never replaced by a load of incoming text while a     *)
(* save() started by the same State Manager is in flight (its write not    *)
(* complete or its grace delay not elapsed), and such a change does not    *)
(* notify.                                                                 *)
(***************************************************************************)
C1_NoLoadDuringOwnSave ==
    [][OwnSaveInFlight /\ (Delivered \/ Compared)
         => ~Loaded /\ state' = state /\ notified' = 0]_vars

\* a load replaced the Matrix while a second, overlapping save() was in
\* flight: the first save() had cleared the flag
C1_LoadedDuringSave ==
    /\ lastOp = "resume-loaded"
    /\ OwnSaveInFlight /\ ~isSaving
    /\ externals = 0 /\ writeFailures = 0

(***************************************************************************)
(* C2: with this State Manager the only writer of the file, a change       *)
(* notification that carries the text of one of its own saves never        *)
(* discards a mutation applied to the Matrix: the items of every section   *)
(* are after the step what they were before it.                            *)
(***************************************************************************)
C2_OwnEchoKeepsMutations ==
    [][externals = 0
         /\ \/ Delivered /\ Head(notifs).self
            \/ Compared /\ Head(calls).self
         => state'.lists = state.lists]_vars

\* the text of an earlier save was loaded over a later mutation
C2_MutationDiscarded ==
    /\ lastOp = "resume-loaded"
    /\ externals = 0 /\ writeFailures = 0
    /\ \E i \in 1..Len(saves) : saves[i].own /\ saves[i].md # matrixToMd(state)

(***************************************************************************)
(* C3: whenever a save() of the State Manager is between the start of its  *)
(* write and the end of its grace delay, getIsSaving() is true, also when  *)
(* two save() calls overlap.                                               *)
(***************************************************************************)
C3_FlagCoversEverySave == OwnSaveInFlight => isSaving

\* the first of two overlapping saves ended and cleared the flag
C3_FlagClearedEarly == OwnSaveInFlight /\ ~isSaving /\ lastOp = "grace-end"

(***************************************************************************)
(* C4: a save() has completed and the Matrix was not changed since; the    *)
(* text delivered (clear = false) equals, after trimming, the              *)
(* serialization of the State Manager's Matrix.  The delivery and the      *)
(* comparison that follows it leave the Matrix the same object with the    *)
(* same content, notify no subscriber and schedule no render.              *)
(***************************************************************************)
C4_EchoIsSuppressed ==
    [][/\ Delivered /\ hasSM /\ ~Differs(Head(notifs).data, state)
          => state' = state /\ notified' = 0 /\ renderTimeout' = renderTimeout
       /\ Compared /\ Head(calls).cur.live /\ ~Differs(Head(calls).data, state)
          => /\ lastOp' = "resume-echo"
             /\ state' = state /\ notified' = 0 /\ renderTimeout' = renderTimeout
             /\ \A i \in 1..Len(calls') : calls'[i].cur = calls[i + 1].cur]_vars

\* the echo of a completed save was compared and suppressed
C4_EchoSuppressed ==
    /\ lastOp = "resume-echo"
    /\ ~OwnSaveInFlight
    /\ gestures > 0
    /\ externals = 0
    /\ state # InitMatrix
    /\ file = matrixToMd(state)

(***************************************************************************)
(* C5: a Matrix is loaded and no save is in flight; an incoming text       *)
(* (clear = false) that differs after trimming from the serialization of   *)
(* the Matrix replaces it by the parse of the text and notifies, and is    *)
(* never suppressed as an echo: the delivery goes on to the comparison,    *)
(* and the comparison loads the text.                                      *)
(***************************************************************************)
C5_DifferentTextIsLoaded ==
    [][/\ Delivered /\ hasSM /\ state # NoState /\ ~isSaving /\ ~isUnloading
          /\ Differs(Head(notifs).data, state)
          => Len(calls') = Len(calls) + 1
       /\ Compared /\ ~OwnSaveInFlight /\ Differs(Head(calls).data, state)
          => state' = mdToMatrix(Head(calls).data) /\ notified' = 1]_vars

\* a text that differs from the Matrix was suppressed as an echo
C5_DifferentTextSuppressed ==
    /\ lastOp = "resume-echo"
    /\ saves = <<>>
    /\ notifs = <<>>
    /\ calls = <<>>
    /\ isPriorityMatrixFile(file)
    /\ Differs(file, state)

(***************************************************************************)
(* C6: mutations each followed by a save request, made before the first    *)
(* of the saves has written, result in one file write: the State Manager   *)
(* never has two writes requested and not yet written.                     *)
(***************************************************************************)
C6_OneWritePerBurst ==
    Cardinality({i \in Writers : saves[i].own}) <= 1

\* two drops, two writes requested, the first carrying a state that is no
\* longer the final one
C6_TwoWritesRequested ==
    /\ Cardinality({i \in Writers : saves[i].own /\ saves[i].src = "drop"}) = 2
    /\ saves[Min(Writers)].md # matrixToMd(state)

(***************************************************************************)
(* C7: once isUnloading is set, no continuation (a setViewData in          *)
(* progress, a pending read, a refreshTodos scan, a pending render timer)  *)
(* replaces or mutates the Matrix or renders.                              *)
(***************************************************************************)
C7_NothingAfterUnloading ==
    [][isUnloading
         => /\ state' = state
            /\ notified' = 0
            /\ lastOp' \notin {"render", "grace-end-render"}]_vars

\* the refreshTodos scan ended after the close and added to the Matrix
C7_MutatedAfterUnloading == isUnloading /\ lastOp = "refresh-added"

(***************************************************************************)
(* C8: onClose starts a save of the Matrix if the backing file still       *)
(* exists, and starts none if it does not; it does not touch the file.     *)
(***************************************************************************)
C8_CloseSavesExistingFileOnly ==
    [][life = "open" /\ life' = "closed"
         => /\ isUnloading'
            /\ IF hasSM /\ fileExists
               THEN /\ saves' = Append(saves, [md |-> matrixToMd(state), pc |-> "write",
                                               own |-> TRUE, src |-> "close"])
                    /\ isSaving'
               ELSE saves' = saves /\ isSaving' = isSaving
            /\ file' = file /\ fileExists' = fileExists]_vars

\* the view closed on a deleted file and no write was requested
C8_ClosedWithoutFile ==
    lastOp = "close" /\ hasSM /\ ~fileExists /\ Writers = {}

(***************************************************************************)
(* C9: save() on a State Manager that holds no Matrix requests no write:   *)
(* as long as nothing was loaded, no save is in flight, the flag is not    *)
(* set and the file is what it was.                                        *)
(***************************************************************************)
C9_NoWriteWithoutMatrix ==
    state = NoState => saves = <<>> /\ ~isSaving /\ file = InitText /\ notifs = <<>>

\* save() was called on a State Manager that holds no Matrix
C9_SavedWithoutMatrix == lastOp = "save-without-matrix" /\ state = NoState

(***************************************************************************)
(* C10: a failed write of save() leaves the Matrix as it is, with every    *)
(* mutation applied before the save; a save() started later serializes     *)
(* the Matrix as it is then, and its write puts that text in the file.     *)
(***************************************************************************)
C10_FailedWriteKeepsMutations ==
    [][/\ writeFailures' # writeFailures => state' = state /\ file' = file
       /\ Len(saves') > Len(saves) => saves'[Len(saves')].md = matrixToMd(state')
       /\ lastOp' = "write-done" => file' = saves[Min(Writers)].md]_vars

\* a write failed, and a later save wrote the Matrix with its mutations
C10_RetriedAfterFailure ==
    /\ writeFailures > 0
    /\ lastOp = "write-done"
    /\ externals = 0
    /\ state # InitMatrix
    /\ file = matrixToMd(state)

(***************************************************************************)
(* The operations of the State Manager on a loaded Matrix.  The call made  *)
(* by a step is read from lastOp', the lists before it from state and the  *)
(* lists after it from state'.                                             *)
(***************************************************************************)
\* moveItem(itemId, from, to, insertIndex) with from # to and the item in from
MovedAcross ==
    /\ lastOp'.op = "moveItem"
    /\ lastOp'.from # lastOp'.to
    /\ FindIndex(state.lists[lastOp'.from], lastOp'.itemId) # 0

(***************************************************************************)
(* C11: moveItem(id, from, to, i) with from # to and the item in from      *)
(* takes the item out of from and puts it into to, at position i when i    *)
(* is a position of to's list; the other items of both lists keep their    *)
(* order and every other section is unchanged.                             *)
(***************************************************************************)
C11_MoveTransfersItem ==
    [][MovedAcross =>
        LET from == lastOp'.from
            to == lastOp'.to
            i == lastOp'.insertIndex
            idx == FindIndex(state.lists[from], lastOp'.itemId)
            dest == state.lists[to]
        IN /\ state'.lists[from] = RemoveAt(state.lists[from], idx)
           /\ \E p \in 1..Len(state'.lists[to]) :
                 /\ state'.lists[to][p].id = lastOp'.itemId
                 /\ RemoveAt(state'.lists[to], p) = dest
                 /\ ((i >= 0 /\ i <= Len(dest)) => p = i + 1)
           /\ \A s \in Sections \ {from, to} : state'.lists[s] = state.lists[s]]_vars

\* Todo = [x, y, z], moveItem('y', 'todo', 'q1', 0): Todo = [x, z], Q1 = [y]
C11_MovedToFrontOfQ1 ==
    /\ lastOp = Heard(Called("moveItem", "y", "todo", "q1", 0), Outcome(state, TRUE))
    /\ state.lists["todo"] = <<PlainItem("x"), PlainItem("z")>>
    /\ state.lists["q1"] = <<PlainItem("y")>>

(***************************************************************************)
(* C12: after moveItem(id, from, to, i) with from # to, the moved item     *)
(* has checked = true when to is the Done bank, checked = false when to    *)
(* is the Todo bank, and the checked value it had when to is a quadrant;   *)
(* nothing else of the item changes.                                       *)
(***************************************************************************)
C12_MoveSetsChecked ==
    [][MovedAcross =>
        LET from == lastOp'.from
            to == lastOp'.to
            item == state.lists[from][FindIndex(state.lists[from], lastOp'.itemId)]
            checked == IF to = "done" THEN TRUE
                       ELSE IF to = "todo" THEN FALSE
                       ELSE item.checked
        IN \E p \in 1..Len(state'.lists[to]) :
              /\ RemoveAt(state'.lists[to], p) = state.lists[to]
              /\ state'.lists[to][p] = [item EXCEPT !.checked = checked]]_vars

\* y, ticked by an earlier move to Done, was moved on to Q1 and is still ticked
C12_TickedItemInQuadrant ==
    /\ lastOp.op = "moveItem"
    /\ lastOp.itemId = "y"
    /\ lastOp.from = "done"
    /\ lastOp.to = "q1"
    /\ \E p \in 1..Len(state.lists["q1"]) :
          state.lists["q1"][p] = [PlainItem("y") EXCEPT !.checked = TRUE]

(***************************************************************************)
(* C13: in moveItem with from # to a given insertIndex is clamped to       *)
(* [0, length of the destination list]: an index below 0 inserts at        *)
(* position 0, an index above the length inserts at the end; an omitted    *)
(* insertIndex appends the item.                                           *)
(***************************************************************************)
C13_GivenIndexIsClamped ==
    [][MovedAcross =>
        LET to == lastOp'.to
            i == lastOp'.insertIndex
            dest == state.lists[to]
            p == IF i = NoIndex THEN Len(dest) + 1
                 ELSE IF i < 0 THEN 1
                 ELSE IF i > Len(dest) THEN Len(dest) + 1
                 ELSE i + 1
        IN /\ Len(state'.lists[to]) = Len(dest) + 1
           /\ state'.lists[to][p].id = lastOp'.itemId
           /\ RemoveAt(state'.lists[to], p) = dest]_vars

\* Todo = [x], Q1 = [y], moveItem('y', 'q1', 'todo', -2): Todo = [x, y]
C13_NegativeIndexAppended ==
    /\ lastOp = Heard(Called("moveItem", "y", "q1", "todo", -2), Outcome(state, TRUE))
    /\ state.lists["todo"] = <<PlainItem("x"), PlainItem("y")>>
    /\ state.lists["q1"] = <<>>

(***************************************************************************)
(* C14: moveItem(id, s, s, i) is a pure reorder: in every state and for    *)
(* every index i it leaves the lists that reorderItem(id, s, i) leaves     *)
(* and notifies the subscribers as many times.                             *)
(***************************************************************************)
C14_MoveWithinSectionIsReorder ==
    [][(lastOp'.op = "moveItem" /\ lastOp'.from = lastOp'.to) =>
        LET o == reorderItem(state, lastOp'.itemId, lastOp'.from, lastOp'.insertIndex)
        IN /\ state' = o.m
           /\ notified' = Len(o.seen)
           /\ lastOp'.seen = o.seen]_vars

\* Todo = [x, y, z], moveItem('y', 'todo', 'todo', 3): Todo = [x, z, y]
C14_MovedWithinTodo ==
    /\ lastOp = Heard(Called("moveItem", "y", "todo", "todo", 3), Outcome(state, TRUE))
    /\ state.lists["todo"] = <<PlainItem("x"), PlainItem("z"), PlainItem("y")>>
    /\ notified = 1

\* reorderItem(itemId, section, insertIndex) with a given index and the item there
Reordered ==
    /\ lastOp'.op = "reorderItem"
    /\ lastOp'.insertIndex >= 0
    /\ FindIndex(state.lists[lastOp'.from], lastOp'.itemId) # 0

(***************************************************************************)
(* C15: reorderItem(id, s, i) for an item at position c of the list L of   *)
(* s gives L with that item taken out and put back at position p, where    *)
(* p is i - 1 if i > c and i otherwise, clamped to the positions of the    *)
(* shortened list; the other items keep their order.                       *)
(***************************************************************************)
C15_ReorderAdjustsIndex ==
    [][Reordered =>
        LET s == lastOp'.from
            i == lastOp'.insertIndex
            L == state.lists[s]
            c == FindIndex(L, lastOp'.itemId) - 1
            rest == RemoveAt(L, c + 1)
            adjusted == IF i > c THEN i - 1 ELSE i
            p == IF adjusted > Len(rest) THEN Len(rest) ELSE adjusted
        IN /\ Len(state'.lists[s]) = Len(L)
           /\ state'.lists[s][p + 1] = L[c + 1]
           /\ RemoveAt(state'.lists[s], p + 1) = rest
           /\ \A t \in Sections \ {s} : state'.lists[t] = state.lists[t]]_vars

\* Q2 = [a, b, c, d], reorderItem('a', 'q2', 3): Q2 = [b, c, a, d]
C15_FirstPutAfterThird ==
    /\ lastOp = Heard(Called("reorderItem", "a", "q2", "q2", 3), Outcome(state, TRUE))
    /\ state.lists["q2"] = <<PlainItem("b"), PlainItem("c"), ItemA, PlainItem("d")>>

\* moveItem or reorderItem naming an id that is not in the source section
StaleTarget ==
    /\ lastOp'.op \in {"moveItem", "reorderItem"}
    /\ FindIndex(state.lists[lastOp'.from], lastOp'.itemId) = 0

(***************************************************************************)
(* C16: moveItem or reorderItem naming an item id that is not in the       *)
(* named source section leaves every list of the Matrix as it was (the     *)
(* code has no throw on this path: the call is a step like any other).     *)
(***************************************************************************)
C16_StaleTargetChangesNothing ==
    [][StaleTarget => state' = state]_vars

\* Todo = [x, y, z]: moveItem('a', 'todo', 'q1', 0) returned, nothing moved
C16_AbsentItemNotMoved ==
    /\ lastOp = Called("moveItem", "a", "todo", "q1", 0)
    /\ state.lists["todo"] = <<PlainItem("x"), PlainItem("y"), PlainItem("z")>>
    /\ state.lists["q1"] = <<>>
    /\ gestures > 0

(***************************************************************************)
(* C17: removeItem(id, s) deletes the item with that id from the list of   *)
(* s and leaves all other items and sections unchanged; when no item with  *)
(* that id is in s nothing changes.                                        *)
(***************************************************************************)
C17_RemoveDeletesOneItem ==
    [][lastOp'.op = "removeItem" =>
        LET s == lastOp'.from
            L == state.lists[s]
        IN /\ \A t \in Sections \ {s} : state'.lists[t] = state.lists[t]
           /\ IF \E p \in 1..Len(L) : L[p].id = lastOp'.itemId
              THEN \E p \in 1..Len(L) :
                      /\ L[p].id = lastOp'.itemId
                      /\ state'.lists[s] = RemoveAt(L, p)
              ELSE state' = state]_vars

\* Todo = [x, y, z], removeItem('y', 'todo'): Todo = [x, z]
C17_RemovedFromTodo ==
    /\ lastOp = Heard(Called("removeItem", "y", "todo", "todo", NoIndex), Outcome(state, TRUE))
    /\ state.lists["todo"] = <<PlainItem("x"), PlainItem("z")>>

(***************************************************************************)
(* C18: every call of moveItem, reorderItem, addItem, setState or          *)
(* getParsedMatrix (load) that changes the Matrix calls the subscribed     *)
(* listener exactly once, after the mutation is complete: the Matrix the   *)
(* listener is shown is the Matrix the operation leaves.                   *)
(***************************************************************************)
C18_NotifiedOnceAfterMutation ==
    [][(/\ lastOp'.op \in {"moveItem", "reorderItem", "addItem", "setState",
                           "getParsedMatrix"}
        /\ state' # state)
       => notified' = 1 /\ lastOp'.seen = <<state'>>]_vars

\* addItem put a new item into the Matrix and the listener was shown it, once
C18_ListenerSawAddedItem ==
    /\ lastOp.op = "addItem"
    /\ lastOp.itemId \in AllIds(state)
    /\ lastOp.seen = <<state>>
    /\ notified = 1

(***************************************************************************)
(* C19: the id that addItem generates for a new item differs from the id   *)
(* of every item already in the Matrix, for any sequence of addItem calls  *)
(* and any texts.                                                          *)
(***************************************************************************)
C19_AddedIdIsFresh ==
    [][lastOp'.op = "addItem" => lastOp'.itemId \notin AllIds(state)]_vars

\* Todo holds two items with one id, 'p q' and 'p-q' added in one millisecond
C19_TwoItemsShareAnId ==
    /\ lastOp.op = "addItem"
    /\ \E p, q \in 1..Len(state.lists["todo"]) :
          /\ p < q
          /\ state.lists["todo"][p].id = lastOp.itemId
          /\ state.lists["todo"][q].id = lastOp.itemId
          /\ state.lists["todo"][p].titleRaw # state.lists["todo"][q].titleRaw

(***************************************************************************)
(* C20: in every reachable state an item has checked = true only if it is  *)
(* in the Done bank: no item of the Todo bank or of a quadrant is checked, *)
(* after any sequence of loads, moves, reorders and adds.                  *)
(***************************************************************************)
C20_CheckedOnlyInDone ==
    \A s \in Sections \ {"done"} :
        \A p \in 1..Len(state.lists[s]) : ~state.lists[s][p].checked

\* a file with a ticked task under the Q1 heading was loaded: Q1 holds it ticked
C20_TickedTaskLoadedIntoQ1 ==
    /\ lastOp.op = "getParsedMatrix"
    /\ \E p \in 1..Len(state.lists["q1"]) : state.lists["q1"][p].checked

(***************************************************************************)
(* Steps of a document: a load of the text that save() has just written.   *)
(***************************************************************************)
\* the file holds matrixToMd of the Matrix and is loaded in this step
ReloadedOwnText == lastOp'.op = "getParsedMatrix" /\ file = matrixToMd(state)

(***************************************************************************)
(* C21: for every Matrix m reached by loads and operations, the Matrix     *)
(* loaded from matrixToMd(m) equals m: the same items (id, titleRaw and    *)
(* checked) in the same order in the same sections, and the same settings. *)
(***************************************************************************)
C21_ReloadGivesSameMatrix ==
    [][ReloadedOwnText =>
        state'.lists = state.lists /\ state'.settings = state.settings]_vars

\* the item that addItem('t ', 'todo') made came back from the file with
\* its title as id
C21_AddedItemReloadedWithOtherId ==
    /\ lastOp.op = "getParsedMatrix"
    /\ file = matrixToMd(state)
    /\ "t" \in AllIds(state)
    /\ "item-1-t-" \notin AllIds(state)

(***************************************************************************)
(* C22: for every reachable Matrix m, matrixToMd of the Matrix loaded      *)
(* from matrixToMd(m) is the same text as matrixToMd(m).                   *)
(***************************************************************************)
C22_SerializationIsIdempotent ==
    [][ReloadedOwnText => matrixToMd(state') = file]_vars

\* the item added as 'see [[n]]' was written, and loaded as '[[n]]'
C22_TextAroundLinkLost ==
    /\ lastOp.op = "getParsedMatrix"
    /\ \E i \in 1..Len(file) : file[i] = Task("see [[n]]", FALSE)
    /\ \E p \in 1..Len(state.lists["todo"]) : state.lists["todo"][p].titleRaw = "[[n]]"
    /\ \A p \in 1..Len(state.lists["todo"]) : state.lists["todo"][p].titleRaw # "see [[n]]"

\* the key/value lines between the front-matter delimiters of a text
FrontmatterLines(md) ==
    IF FrontmatterEnd(md) = 0 THEN <<>>
    ELSE SelectSeq(SubSeq(md, 2, FrontmatterEnd(md) - 1), LAMBDA l : l.k = "kv")

(***************************************************************************)
(* C23: every front-matter key/value pair of the loaded document is kept   *)
(* in the frontmatter of the Matrix, and the front matter written by the   *)
(* next save holds it with an equal value.                                 *)
(***************************************************************************)
C23_FrontmatterIsPreserved ==
    [][LET old == FrontmatterLines(file)
           new == FrontmatterLines(file')
       IN /\ lastOp'.op = "getParsedMatrix" =>
                \A i \in 1..Len(old) : \E j \in 1..Len(state'.frontmatter) :
                    /\ state'.frontmatter[j].key = old[i].t
                    /\ state'.frontmatter[j].val = JsonParseOrRaw(old[i].v)
          /\ lastOp'.op = "save" =>
                \A i \in 1..Len(old) : \E j \in 1..Len(new) :
                    /\ new[j].t = old[i].t
                    /\ JsonParseOrRaw(new[j].v) = JsonParseOrRaw(old[i].v)]_vars

\* the document with title and my-key was saved: title is there, my-key is gone
C23_HyphenatedKeyLost ==
    /\ lastOp.op = "save"
    /\ \E j \in 1..Len(state.frontmatter) : state.frontmatter[j].key = "title"
    /\ \E i \in 1..Len(FrontmatterLines(file)) :
          FrontmatterLines(file)[i] = KeyValue("title", JsonStringify("hello"))
    /\ \A i \in 1..Len(FrontmatterLines(file)) : FrontmatterLines(file)[i].t # "my-key"

(***************************************************************************)
(* C24: every text that the serializer produces holds the reserved marker  *)
(* key, with its value, in its front matter, also when the frontmatter of  *)
(* the Matrix does not hold it: the marker is in the file after a save.    *)
(***************************************************************************)
C24_SavedTextHoldsMarker ==
    [][lastOp'.op = "save" =>
        \E i \in 1..Len(FrontmatterLines(file')) :
            FrontmatterLines(file')[i] = KeyValue(MarkerKey, JsonStringify(MarkerValue))]_vars

\* a Matrix without the marker in its frontmatter was saved with the marker
C24_MarkerAddedBySave ==
    /\ lastOp.op = "save"
    /\ \A j \in 1..Len(state.frontmatter) : state.frontmatter[j].key # MarkerKey
    /\ file = matrixToMd(state)
    /\ \E i \in 1..Len(file) : file[i].k = "kv" /\ file[i].t = MarkerKey

(***************************************************************************)
(* The lines of a text as the extractor files them, said without its       *)
(* loop: the section of a line is the one named by the last heading        *)
(* before it that names a section.                                         *)
(***************************************************************************)
SectionAt(md, i) ==
    LET hs == {j \in 1..(i - 1) : md[j].k = "h2" /\ HeadingSection(md[j].t) # "none"}
    IN IF hs = {} THEN "none"
       ELSE HeadingSection(md[CHOOSE j \in hs : \A h \in hs : h <= j].t)

\* the items of the list lines with an index in S, in the order of the text
ItemsAt(md, S) ==
    LET sel == SelectSeq([i \in 1..Len(md) |-> i],
                         LAMBDA i : IsListItem(md[i]) /\ md[i].t # "" /\ i \in S)
    IN [k \in 1..Len(sel) |-> listItemToUnhydratedItem(md[sel[k]])]

(***************************************************************************)
(* C25: of the list under a TODO heading, each unchecked line becomes an   *)
(* item of the Todo bank and each checked line an item of the Done bank,   *)
(* in the order of the list (the Done bank also takes the lines under a    *)
(* DONE heading).                                                          *)
(***************************************************************************)
C25_TickedTodoLinesGoToDone ==
    lastOp.op = "getParsedMatrix" =>
        /\ state.lists["todo"] =
              ItemsAt(file, {i \in 1..Len(file) : SectionAt(file, i) = "todo" /\ ~file[i].c})
        /\ state.lists["done"] =
              ItemsAt(file, {i \in 1..Len(file) : \/ SectionAt(file, i) = "todo" /\ file[i].c
                                                  \/ SectionAt(file, i) = "done"})

\* '- [ ] [[n]]' and '- [x] [[m]]' under TODO: Todo = [n], Done = [m]
C25_TodoListSplit ==
    /\ lastOp.op = "getParsedMatrix"
    /\ \E i \in 1..(Len(file) - 1) :
          /\ file[i] = Task("[[n]]", FALSE)
          /\ file[i + 1] = Task("[[m]]", TRUE)
          /\ SectionAt(file, i) = "todo"
    /\ state.lists["todo"] = <<MkItem("n", "[[n]]", FALSE)>>
    /\ state.lists["done"] = <<MkItem("m", "[[m]]", TRUE)>>

\* the list a line is filed in, from the section heading it stands under
FiledAt(md, i) ==
    IF SectionAt(md, i) = "todo" /\ md[i].c THEN "done" ELSE SectionAt(md, i)

(***************************************************************************)
(* C26: a heading that names none of TODO, Q1..Q4, DONE leaves the current *)
(* section as it was: every list line is filed by the last heading before  *)
(* it that names a section, whatever other headings stand in between, and  *)
(* is left out only if no such heading came before it.                     *)
(***************************************************************************)
C26_OtherHeadingKeepsSection ==
    lastOp.op = "getParsedMatrix" =>
        \A s \in DOMAIN state.lists :
            state.lists[s] = ItemsAt(file, {i \in 1..Len(file) : FiledAt(file, i) = s})

\* '## TODO', a, '## Notes', b: both a and b are in the Todo bank
C26_LineAfterNotesFiledInTodo ==
    /\ lastOp.op = "getParsedMatrix"
    /\ \E j \in 1..Len(file), i \in 1..Len(file) :
          /\ j < i
          /\ file[j] = Heading("Notes")
          /\ file[i] = Bullet("b")
          /\ \A h \in (j + 1)..(i - 1) : file[h].k # "h2"
          /\ SectionAt(file, i) = "todo"
    /\ \E k \in 1..Len(state.lists["todo"]) : state.lists["todo"][k].id = "b"

(***************************************************************************)
(* C27: a text with at least one heading that the extractor takes for      *)
(* TODO, Q1..Q4 or DONE is taken for a matrix document by setViewData,     *)
(* whether it comes with a change notification or from the read of the     *)
(* open, also when it has no marker.                                       *)
(***************************************************************************)
C27_SectionHeadingMeansMatrix ==
    [][LET Classified(md) ==
               \E i \in 1..Len(md) : md[i].k = "h2" /\ HeadingSection(md[i].t) # "none"
       IN /\ (/\ notifs # <<>>
               /\ notifs' = Tail(notifs)
               /\ Classified(Head(notifs).data)) => lastOp' # "svd-not-matrix"
          /\ (/\ pendingReads' # pendingReads
               /\ fileExists
               /\ Classified(file)) => lastOp' # "svd-not-matrix"]_vars

\* '## todo' written by hand is filed by the extractor and refused by the view
C27_LowerCaseHeadingRefused ==
    /\ lastOp = "svd-not-matrix"
    /\ externals = 1
    /\ notifs = <<>>
    /\ file = <<Heading("todo"), Blank, Bullet("a")>>
    /\ mdToMatrix(file).lists["todo"] = <<MkItem("a", "a", FALSE)>>
    /\ ~isPriorityMatrixFile(file)

(***************************************************************************)
(* C28: a load of any text yields a Matrix with the six lists q1..q4, todo *)
(* and done, filled from the lines under section headings and empty        *)
(* where there are none, and when the text has no settings block or one    *)
(* that does not parse, settings equal to the defaults of settings.ts.     *)
(***************************************************************************)
C28_LoadToleratesAnyText ==
    [][lastOp'.op = "load" =>
          LET doc == docs'[lastOp'.doc]
              md == lastOp'.text
              json == CapturedSettings(ContentWithoutFrontmatter(md))
          IN /\ DOMAIN doc.lists = Sections
             /\ \A s \in Sections :
                   doc.lists[s] = ItemsAt(md, {i \in 1..Len(md) : FiledAt(md, i) = s})
             /\ (json = "" \/ ~Parseable(json)) =>
                   SettingsOf(doc, defaults') = DefaultSettingsObject]_vars

\* a text with unparseable settings JSON loaded with another document's exemption
C28_BrokenSettingsLoadedWithExemption ==
    /\ lastOp.op = "load"
    /\ CapturedSettings(ContentWithoutFrontmatter(lastOp.text)) = "{broken"
    /\ docs[lastOp.doc].lists["q1"] = <<MkItem("n", "[[n]]", FALSE)>>
    /\ SettingsOf(docs[lastOp.doc], defaults).exemptPaths = <<"n">>

(***************************************************************************)
(* C29: an operation on one open document, the exemption of a path         *)
(* included, leaves the DEFAULT_SETTINGS object and the settings of every  *)
(* other document as they were, and a document loaded afterwards gets the  *)
(* settings its own text gives over the defaults of settings.ts.           *)
(***************************************************************************)
C29_SettingsAreIsolated ==
    [][LET d == lastOp'.doc
           json == CapturedSettings(ContentWithoutFrontmatter(lastOp'.text))
       IN lastOp'.op \in {"exempt", "load"} =>
             /\ defaults' = defaults
             /\ \A e \in DocNames \ {d} :
                   SettingsOf(docs'[e], defaults') = SettingsOf(docs[e], defaults)
             /\ lastOp'.op = "load" =>
                   SettingsOf(docs'[d], defaults') =
                       IF json = "" \/ ~Parseable(json) THEN DefaultSettingsObject
                       ELSE Assign(DefaultSettingsObject, JsonObject(json))]_vars

\* the exemption made in document A shows in DEFAULT_SETTINGS and in document B
C29_ExemptionLeaked ==
    /\ lastOp.op = "exempt"
    /\ lastOp.doc = "A"
    /\ defaults.exemptPaths = <<"n">>
    /\ docs["A"].settings.shared
    /\ docs["B"].settings.shared
    /\ SettingsOf(docs["B"], defaults).exemptPaths = <<"n">>

(***************************************************************************)
(* C30: whatever toggles are switched and reset buttons pressed in the     *)
(* settings modal, the settings handed to onSettingsChange never have      *)
(* autoRemoveTodoOnDone and enableStrikethroughOnDone both true.           *)
(***************************************************************************)
C30_RemoveAndStrikeExclusive ==
    \A i \in 1..Len(manager.delivered) :
        ~(/\ manager.delivered[i].autoRemoveTodoOnDone
          /\ manager.delivered[i].enableStrikethroughOnDone)

\* auto-remove switched on and delivered, then strikethrough reset to its default
C30_ResetEnabledStrikethrough ==
    /\ lastOp = "onSettingsChange"
    /\ gestures = 2
    /\ manager.global = Flags(FALSE, TRUE)
    /\ manager.disabled
    /\ manager.delivered = <<Flags(TRUE, TRUE)>>

(***************************************************************************)
(* C31: moveItem and reorderItem neither lose nor duplicate items: over    *)
(* the six lists every item, by its id and its text, occurs after the call *)
(* as many times as before it.                                             *)
(***************************************************************************)
C31_MovesKeepTheItems ==
    [][lastOp'.op \in {"moveItem", "reorderItem"} =>
          LET Places(m, id, titleRaw) ==
                  {<<sec, i>> \in Sections \X (1..8) :
                      /\ i <= Len(m.lists[sec])
                      /\ m.lists[sec][i].id = id
                      /\ m.lists[sec][i].titleRaw = titleRaw}
          IN \A it \in AllItems(state) \cup AllItems(state') :
                Cardinality(Places(state', it.id, it.titleRaw)) =
                    Cardinality(Places(state, it.id, it.titleRaw))]_vars

\* two moves and the three items of the first Matrix are all still there, once each
C31_MovedTwiceAndAllThere ==
    /\ lastOp.op \in {"moveItem", "reorderItem"}
    /\ gestures = 2
    /\ Len(lastOp.seen) = 1
    /\ AllIds(state) = {"x", "y", "z"}
    /\ state.lists["todo"] # <<PlainItem("x"), PlainItem("y"), PlainItem("z")>>
    /\ Len(state.lists["todo"]) + Len(state.lists["q1"]) + Len(state.lists["done"]) = 3

(***************************************************************************)
(* C32: with no other writer, and every drop followed by its save(), once  *)
(* every save() has finished, every change notification is delivered and   *)
(* no setViewData is suspended, the file, trimmed, is the serialization,   *)
(* trimmed, of the Matrix held.                                            *)
(***************************************************************************)
C32_FileMatchesMatrixAtRest ==
    (/\ externals = 0
     /\ gestures >= 1
     /\ state # NoState
     /\ saves = <<>>
     /\ notifs = <<>>
     /\ calls = <<>>
     /\ pendingReads = {}) => Trim(file) = Trim(matrixToMd(state))

\* two drops, both writes succeeded, all at rest: the file holds the second
\* drop and the Matrix does not
C32_SecondDropOnlyInFile ==
    /\ externals = 0
    /\ writeFailures = 0
    /\ gestures = 2
    /\ saves = <<>>
    /\ notifs = <<>>
    /\ calls = <<>>
    /\ pendingReads = {}
    /\ ~isSaving
    /\ state # NoState
    /\ Trim(file) # Trim(matrixToMd(state))
    /\ mdToMatrix(file).lists # state.lists

(***************************************************************************)
(* C33: every save() comes to its end and leaves the saving flag down:     *)
(* whenever a save() is in flight, a state follows in which none is and    *)
(* isSaving is false, whether the writes succeeded or failed.              *)
(***************************************************************************)
C33_SaveEndsWithFlagDown == (saves # <<>>) ~> (saves = <<>> /\ ~isSaving)

\* a save() whose write was rejected has ended and the flag is down
C33_FlagDownAfterFailedWrite ==
    /\ lastOp = "write-failed"
    /\ writeFailures = 1
    /\ state # NoState
    /\ saves = <<>>
    /\ ~isSaving

(***************************************************************************)
(* C34: in every state reached by loads and operations every item of the   *)
(* Done bank has checked = true.                                           *)
(***************************************************************************)
C34_DoneItemsAreChecked ==
    \A p \in 1..Len(state.lists["done"]) : state.lists["done"][p].checked

\* '- [ ] c' under the DONE heading was loaded: c is in the Done bank, unticked
C34_UntickedTaskLoadedIntoDone ==
    /\ lastOp.op = "getParsedMatrix"
    /\ \E i \in 1..Len(file) :
          /\ file[i] = Task("c", FALSE)
          /\ SectionAt(file, i) = "done"
    /\ state.lists["done"] = <<MkItem("c", "c", FALSE)>>

(***************************************************************************)
(* C35: a settings change applied from the settings modal changes only     *)
(* data.settings: the six lists the State Manager holds right after        *)
(* onSettingsChange are the lists it held right before, also when the      *)
(* Matrix was replaced by a load while the modal was open.                 *)
(***************************************************************************)
C35_SettingsChangeKeepsLists ==
    [][lastOp' = "onSettingsChange" => state'.lists = state.lists]_vars

\* the file was changed and loaded while the modal was open; the settings
\* change put the lists of the opening back
C35_ListsOfTheOpeningRestored ==
    /\ lastOp = "onSettingsChange"
    /\ file = matrixToMd(EditedMatrix)
    /\ state.lists = InitMatrix.lists
    /\ mdToMatrix(file).lists = EditedMatrix.lists
    /\ Len(saves) = 1
    /\ mdToMatrix(saves[1].md).lists = InitMatrix.lists

(***************************************************************************)
(* C36: every edit made in the settings modal is applied: the settings     *)
(* handed to onSettingsChange are the settings before with every updateFn  *)
(* passed to applySettingsUpdate since the last delivery applied in turn,  *)
(* so two fields edited within the debounce window both arrive.            *)
(***************************************************************************)
C36_EveryEditIsApplied ==
    [][lastOp' = "onSettingsChange" =>
          LET fns == manager.edits
              AllApplied[n \in 0..Len(fns)] ==
                  IF n = 0 THEN manager.settings ELSE Updated(fns[n], AllApplied[n - 1])
          IN manager'.delivered = <<AllApplied[Len(fns)]>>]_vars

\* auto-remove switched off, then strikethrough switched on within the second:
\* auto-remove is delivered still on
C36_FirstEditLost ==
    /\ lastOp = "onSettingsChange"
    /\ gestures = 2
    /\ manager.global = Flags(FALSE, TRUE)
    /\ ~manager.disabled
    /\ manager.delivered = <<Flags(TRUE, TRUE)>>

(***************************************************************************)
(* C37: refreshTodos does not undo a replacement of the state: whatever    *)
(* happened while it scanned, the lists after it added its new items are   *)
(* the lists the State Manager held just before, with the new items        *)
(* appended to the Todo bank.                                              *)
(***************************************************************************)
C37_RefreshKeepsReplacedState ==
    [][lastOp' = "refresh-added" =>
          /\ \A sec \in Sections \ {"todo"} : state'.lists[sec] = state.lists[sec]
          /\ Len(state'.lists["todo"]) > Len(state.lists["todo"])
          /\ SubSeq(state'.lists["todo"], 1, Len(state.lists["todo"])) = state.lists["todo"]]_vars

\* the document was rewritten and reloaded during the scan; after the refresh
\* the State Manager holds the lists of before the reload plus the new item
C37_ReloadUndoneByRefresh ==
    /\ lastOp = "refresh-added"
    /\ life = "open" /\ ~isUnloading
    /\ notifs = <<>> /\ calls = <<>> /\ pendingReads = {}
    /\ file \in ExternalTexts
    /\ isPriorityMatrixFile(file)
    /\ mdToMatrix(file).lists # InitMatrix.lists
    /\ state.lists = [InitMatrix.lists EXCEPT !["todo"] = @ \o PathItems(ScanPaths)]

C39_DropWithinSectionLandsAtIndex ==
    [][lastOp'.op = "drop" =>
          LET section == lastOp'.from
              k == lastOp'.insertIndex
              before == state.lists[section]
              after == state'.lists[section]
              idx == FindIndex(before, lastOp'.itemId)
          IN /\ Len(after) = Len(before)
             /\ after[k + 1] = before[idx]
             /\ RemoveAt(after, k + 1) = RemoveAt(before, idx)
             /\ \A sec \in Sections \ {section} : state'.lists[sec] = state.lists[sec]]_vars

\* the first of the four items of Q2 dropped behind the three others
C39_FirstItemDroppedLast ==
    /\ lastOp.op = "drop"
    /\ lastOp.itemId = "a"
    /\ lastOp.insertIndex = 3
    /\ state.lists["q2"] = <<PlainItem("b"), PlainItem("c"), PlainItem("d"), ItemA>>

(***************************************************************************)
(* C40: closing the view on a document that was opened and not changed     *)
(* (no operation on the Matrix, no save since the load) leaves the file    *)
(* with the content it had when it was opened.                             *)
(***************************************************************************)
C40_CloseLeavesUnchangedDocument ==
    [][lastOp'.op = "close" /\ lastOp.op = "getParsedMatrix" /\ gestures = 0 =>
          file' = file]_vars

\* the document with the front-matter pair my-key: 1 opened and closed: the
\* file holds the serialization of its Matrix, which is another text
C40_ClosedDocumentRewritten ==
    /\ lastOp.op = "close"
    /\ gestures = 0
    /\ state.frontmatter # <<>>
    /\ file = matrixToMd(state)
    /\ file \notin DocTexts

=============================================================================
